---- MODULE Spec2Model ----
(***************************************************************************)
(* A model of scripts/variant_generator.py: the deterministic per-student  *)
(* variant generator (VariantGenerator), its shipped generator tables, the *)
(* JSON serializer and the README renderer; and of the analysis pipeline   *)
(* under src/ (data_loader, data_processor, analyzer, main).               *)
(*                                                                         *)
(* Abstractions (stated once, used throughout):                            *)
(*  - Text is a sequence of chunks.  A chunk is a one-character string or  *)
(*    a word made of letters, digits, '-', '_', '.' and blanks only.       *)
(*  - SHA-256 truncated to 8 bytes is a fixed deterministic function of    *)
(*    the hashed byte string into 0..SeedSpace-1 (SeedSpace stands for     *)
(*    2^64).                                                               *)
(*  - random.Random is a deterministic stream: a state, set from the seed, *)
(*    advanced by one step per primitive draw.                             *)
(*  - A float produced by round(x, d) is the decimal num / 10^exp in       *)
(*    normal form (no trailing zero beyond the first decimal), which is    *)
(*    what repr() prints.                                                  *)
(***************************************************************************)
EXTENDS Integers, Sequences, FiniteSets, TLC

VARIABLES
    config,     \* VariantGenerator.config : VariantConfig
    pc,         \* position inside generate_variant / generate_batch
    call,       \* locals of the running generate_variant call
    rng,        \* the random.Random instance of generate_variant
    trace,      \* generator invocations of the running/last call, in order
    batch,      \* locals of the running generate_batch call
    ret,        \* what the last finished call gave its caller
    kept,       \* an earlier result the caller still holds
    json_text,  \* text returned by generate_variant_config_file
    parsed,     \* json.loads(json_text)
    readme,     \* locals and result of generate_student_readme
    fs,         \* the output directory and the files in it
    synth,      \* outcome of the last generate_sample_data call
    cli,        \* the command-line run: arguments, position, stdout, exit status
    pipeline    \* the analysis pipeline: the table at hand, the last call, the run of main.py

vars == <<config, pc, call, rng, trace, batch, ret, kept, json_text, parsed, readme,
          fs, synth, cli, pipeline>>

----------------------------------------------------------------------------
(* Bounds of the model *)

SeedSpace == 256
MaxGroups == 2
MaxBatch == 2
MaxTemplate == 3
MaxIdLen == 3
MaxRows == 2

----------------------------------------------------------------------------
(* Python values *)

\* a Python str: its text, as a sequence of chunks
Lit(word) == <<word>>

NoneV == [t |-> "none"]
IntV(n) == [t |-> "int", v |-> n]
StrV(s) == [t |-> "str", v |-> s]
ListV(xs) == [t |-> "list", v |-> xs]
DictV(kvs) == [t |-> "dict", v |-> kvs]

RECURSIVE Pow10(_)
Pow10(d) == IF d = 0 THEN 1 ELSE 10 * Pow10(d - 1)

RECURSIVE NormFloat(_, _)
NormFloat(num, exp) ==
    IF exp > 1 /\ num % 10 = 0 THEN NormFloat(num \div 10, exp - 1)
    ELSE [t |-> "float", num |-> num, exp |-> exp]

\* round(x, d) where x * 10^d rounds to the integer `scaled`
Round(scaled, d) == NormFloat(scaled, d)

Range(s) == {s[i] : i \in 1..Len(s)}

----------------------------------------------------------------------------
(* Identifier Hasher *)

Ord(c) ==
    CASE c = "a" -> 97 [] c = "b" -> 98 [] c = "l" -> 108 [] c = "o" -> 111
      [] c = ":" -> 58 [] c = "\"" -> 34 [] c = "\\" -> 92
      [] c = "0" -> 48 [] c = "1" -> 49 [] c = "4" -> 52
      [] c = "G" -> 71 [] c = "Y" -> 89
      [] c = "2" -> 50 [] c = "3" -> 51 [] c = "5" -> 53 [] c = "6" -> 54
      [] c = "c" -> 99 [] c = "e" -> 101 [] c = "i" -> 105 [] c = "j" -> 106
      [] c = "m" -> 109 [] c = "n" -> 110 [] c = "p" -> 112 [] c = "r" -> 114
      [] c = "t" -> 116
      [] OTHER -> 63

RECURSIVE Digest(_, _)
Digest(h, bytes) ==
    IF bytes = <<>> THEN h
    ELSE Digest((h * 31 + Ord(Head(bytes))) % SeedSpace, Tail(bytes))

Sha256First8(bytes) == Digest(7, bytes)

Combined(cfg, student_id) ==
    cfg.assignment_id \o <<":">> \o cfg.seed_salt \o <<":">> \o student_id

\* a mistake: the three fields hashed one after the other, without the joins
SeedOfFieldsApart(cfg, student_id) ==
    Digest(Digest(Digest(7, cfg.assignment_id), cfg.seed_salt), student_id)

_compute_seed(cfg, student_id) == Sha256First8(Combined(cfg, student_id))

----------------------------------------------------------------------------
(* Group Assigner *)

\* Python's int %: the result takes the sign of the divisor; a zero divisor raises
PyMod(a, b) ==
    IF b = 0 THEN [ok |-> FALSE, error |-> "ZeroDivisionError"]
    ELSE IF b > 0 THEN [ok |-> TRUE, value |-> a % b]
    ELSE [ok |-> TRUE, value |-> 0 - ((0 - a) % (0 - b))]

GroupOffByOne(seed, num_groups) == PyMod(seed, num_groups + 1)

_compute_group(seed, num_groups) == PyMod(seed, num_groups)

----------------------------------------------------------------------------
(* random.Random *)

Random(seed) == (seed * 37 + 11) % 1024

RngStep(s) == (s * 17 + 11) % 1024

\* one primitive draw: the drawn number and the advanced state
Draw(s) == [v |-> RngStep(s), s |-> RngStep(s)]

randint(s, a, b) == [v |-> a + (Draw(s).v % (b - a + 1)), s |-> Draw(s).s]

choice(s, xs) == [v |-> xs[1 + (Draw(s).v % Len(xs))], s |-> Draw(s).s]

\* round(rng.uniform(a, b), d), with lo = a * 10^d and hi = b * 10^d
uniform_round(s, lo, hi, d) ==
    [v |-> Round(lo + (Draw(s).v % (hi - lo + 1)), d), s |-> Draw(s).s]

RemoveAt(xs, i) == SubSeq(xs, 1, i - 1) \o SubSeq(xs, i + 1, Len(xs))

RECURSIVE sample(_, _, _)
sample(s, pool, k) ==
    IF k = 0 THEN [v |-> <<>>, s |-> s]
    ELSE LET i == 1 + (Draw(s).v % Len(pool))
             rest == sample(Draw(s).s, RemoveAt(pool, i), k - 1)
         IN [v |-> <<pool[i]>> \o rest.v, s |-> rest.s]

----------------------------------------------------------------------------
(* Parameter generator functions: (rng, group_id) -> value.  Each returns   *)
(* the value, the advanced rng state and whether it returned or raised.     *)

Returned(r) == [ok |-> TRUE, v |-> r.v, s |-> r.s]

Exception(type) == [type |-> type, attached |-> {}]

RockTypes ==
    <<Lit("Granite"), Lit("Basalt"), Lit("Sandstone"), Lit("Schist"), Lit("Gneiss")>>

AllSites ==
    <<Lit("Site-A"), Lit("Site-B"), Lit("Site-C"), Lit("Site-D"), Lit("Site-E")>>

StrList(xs) == ListV([i \in 1..Len(xs) |-> StrV(xs[i])])

lab01_sample_depth(s) == LET r == randint(s, 150, 450) IN [v |-> IntV(r.v), s |-> r.s]

lab01_sample_mass(s) == uniform_round(s, 100, 250, 1)

lab01_sample_volume(s) == uniform_round(s, 30, 80, 1)

lab01_rock_type(s) == LET r == choice(s, RockTypes) IN [v |-> StrV(r.v), s |-> r.s]

\* a mistake of the range: the grade range of the sample data
GradeOfSampleData(s) == uniform_round(s, 30, 500, 2)

lab01_grade_value(s) == uniform_round(s, 50, 450, 2)

lab04_num_records(s) == LET r == randint(s, 40, 60) IN [v |-> IntV(r.v), s |-> r.s]

lab04_locations(s) ==
    LET k == randint(s, 2, 4)
        r == sample(k.s, AllSites, k.v)
    IN [v |-> StrList(r.v), s |-> r.s]

lab04_depth_range(s) ==
    LET min_d == randint(s, 50, 150)
        span == randint(min_d.s, 300, 500)
    IN [v |-> DictV(<< <<Lit("min"), IntV(min_d.v)>>,
                    <<Lit("max"), IntV(min_d.v + span.v)>> >>),
        s |-> span.s]

lab04_include_errors(s) == LET r == randint(s, 2, 5) IN [v |-> IntV(r.v), s |-> r.s]

(* The generator functions of the other shipped tables *)

IntOf(r) == [v |-> IntV(r.v), s |-> r.s]

StrOf(r) == [v |-> StrV(r.v), s |-> r.s]

\* [f(rng) for _ in range(n)] for f = round(rng.uniform(lo, hi), d)
RECURSIVE UniformList(_, _, _, _, _)
UniformList(s, n, lo, hi, d) ==
    IF n = 0 THEN [v |-> <<>>, s |-> s]
    ELSE LET x == uniform_round(s, lo, hi, d)
             rest == UniformList(x.s, n - 1, lo, hi, d)
         IN [v |-> <<x.v>> \o rest.v, s |-> rest.s]

\* [rng.randint(a, b) for _ in range(n)]
RECURSIVE RandintList(_, _, _, _)
RandintList(s, n, a, b) ==
    IF n = 0 THEN [v |-> <<>>, s |-> s]
    ELSE LET x == randint(s, a, b)
             rest == RandintList(x.s, n - 1, a, b)
         IN [v |-> <<IntV(x.v)>> \o rest.v, s |-> rest.s]

\* the functions of create_lab02_generators, by parameter name
lab02_generator(name, s) ==
      \* base_high = rng.uniform(2.8, 3.2), not rounded: an odd number of 2000ths,
      \* so that rounding to one decimal never meets a tie; the three thresholds are
      \* round(base_high, 1), round(base_high - 1.0, 1), round(base_high - 2.0, 1)
    CASE name = "grade_thresholds" ->
          LET base_high == 5601 + 2 * (Draw(s).v % 400)
              tenths == (base_high + 100) \div 200
          IN [v |-> DictV(<< <<Lit("high"), Round(tenths, 1)>>,
                             <<Lit("medium"), Round(tenths - 10, 1)>>,
                             <<Lit("low"), Round(tenths - 20, 1)>> >>),
              s |-> Draw(s).s]
      [] name = "test_samples" ->
          LET r == UniformList(s, 8, -5, 50, 1) IN [v |-> ListV(r.v), s |-> r.s]
      [] name = "drilling_depths" ->
          LET r == RandintList(s, 4, 100, 1200) IN [v |-> ListV(r.v), s |-> r.s]
      [] name = "base_rate" ->
          IntOf(choice(s, <<45, 50, 55, 60, 65, 70, 75>>))

\* the functions of create_lab03_generators, by parameter name
lab03_generator(name, s) ==
    CASE name = "sample_count" ->
          IntOf(randint(s, 8, 15))
      [] name = "rock_types" ->
          LET k == randint(s, 3, 5)
              r == sample(k.s, RockTypes \o <<Lit("Quartzite"), Lit("Diorite")>>, k.v)
          IN [v |-> StrList(r.v), s |-> r.s]
      \* min_val = round(rng.uniform(0.2, 0.8), 1); max = round(min_val + rng.uniform(3.0, 5.0), 1)
      [] name = "grade_range" ->
          LET min_val == randint(s, 2, 8)
              span == randint(min_val.s, 30, 50)
          IN [v |-> DictV(<< <<Lit("min"), Round(min_val.v, 1)>>,
                             <<Lit("max"), Round(min_val.v + span.v, 1)>> >>),
              s |-> span.s]

\* the functions of create_lab05_generators, by parameter name
lab05_generator(name, s) ==
    CASE name = "analysis_columns" ->
          LET r == sample(s, <<Lit("grade"), Lit("depth"), Lit("mass"), Lit("volume"),
                               Lit("density")>>, 3)
          IN [v |-> StrList(r.v), s |-> r.s]
      [] name = "groupby_column" ->
          StrOf(choice(s, <<Lit("rock_type"), Lit("location"), Lit("analyst")>>))
      [] name = "filter_threshold" ->
          uniform_round(s, 15, 35, 1)
      [] name = "num_records" ->
          IntOf(randint(s, 150, 250))

\* the functions of create_lab06_generators, by parameter name
lab06_generator(name, s) ==
      \* f"{rng.choice(prefixes)} {rng.choice(suffixes)} Project"
    CASE name = "project_name" ->
          LET prefix == choice(s, <<"Aurora", "Copper", "Golden", "Silver", "Iron", "Zinc">>)
              suffix == choice(prefix.s, <<"Ridge", "Valley", "Peak", "Basin", "Creek", "Hill">>)
          IN [v |-> StrV(<<prefix.v, " ", suffix.v, " Project">>), s |-> suffix.s]
      [] name = "num_drillholes" ->
          IntOf(randint(s, 4, 8))
      [] name = "target_grade" ->
          uniform_round(s, 150, 250, 2)
      [] name = "num_samples" ->
          IntOf(randint(s, 250, 350))

\* the functions of create_ca01_generators, by parameter name
ca01_generator(name, s) ==
    CASE name = "commodity" ->
          StrOf(choice(s, <<Lit("gold"), Lit("copper"), Lit("iron")>>))
      [] name = "hardness_options" ->
          LET r == sample(s, <<Lit("soft"), Lit("medium"), Lit("hard"), Lit("very_hard")>>, 3)
          IN [v |-> StrList(r.v), s |-> r.s]
      [] name = "base_drilling_rate" ->
          IntOf(choice(s, <<65, 70, 75, 80, 85>>))
      [] name = "depth_bonus_threshold" ->
          IntOf(choice(s, <<400, 500, 600>>))
      [] name = "num_test_samples" ->
          IntOf(randint(s, 45, 55))

\* the functions of create_ca02_generators, by parameter name
ca02_generator(name, s) ==
    CASE name = "primary_element" ->
          StrOf(choice(s, <<Lit("Au"), Lit("Cu"), Lit("Ag"), Lit("Fe")>>))
      [] name = "secondary_elements" ->
          LET r == sample(s, <<Lit("Au"), Lit("Cu"), Lit("Ag"), Lit("Fe"), Lit("S"), Lit("As"),
                               Lit("Pb"), Lit("Zn")>>, 3)
          IN [v |-> StrList(r.v), s |-> r.s]
      [] name = "quality_filter" ->
          StrOf(choice(s, <<Lit("Good"), Lit("Fair")>>))
      [] name = "anomaly_threshold_multiplier" ->
          uniform_round(s, 20, 30, 1)
      [] name = "num_assays" ->
          IntOf(randint(s, 450, 550))

\* the functions of create_miniproject_generators, by parameter name
miniproject_generator(name, s) ==
    CASE name = "study_area" ->
          StrOf(choice(s, <<Lit("Northern Zone"), Lit("Eastern Block"), Lit("Western Prospect"),
                            Lit("Central Basin"), Lit("Southern Ridge")>>))
      [] name = "target_elements" ->
          LET r == sample(s, <<Lit("Au"), Lit("Cu"), Lit("Pb"), Lit("Zn"), Lit("As")>>, 3)
          IN [v |-> StrList(r.v), s |-> r.s]
      [] name = "collector_filter" ->
          StrOf(choice(s, <<Lit("A. Smith"), Lit("B. Johnson"), Lit("C. Williams"),
                            Lit("D. Brown")>>))
      [] name = "elevation_range" ->
          LET base == randint(s, 1200, 1400)
              span == randint(base.s, 300, 500)
          IN [v |-> DictV(<< <<Lit("min"), IntV(base.v)>>,
                             <<Lit("max"), IntV(base.v + span.v)>> >>),
              s |-> span.s]
      [] name = "anomaly_percentile" ->
          IntOf(choice(s, <<90, 95>>))
      [] name = "num_samples" ->
          IntOf(randint(s, 750, 850))

\* a mistake: a value taken from the group instead of the stream
GeneratorSharedInGroup(fn, s, group_id) == Returned([v |-> group_id, s |-> s])

\* generator_func(rng, group_id): no shipped generator reads group_id
Generator(fn, s, group_id) ==
    CASE fn = "lab01.sample_depth" -> Returned(lab01_sample_depth(s))
      [] fn = "lab01.sample_mass" -> Returned(lab01_sample_mass(s))
      [] fn = "lab01.sample_volume" -> Returned(lab01_sample_volume(s))
      [] fn = "lab01.rock_type" -> Returned(lab01_rock_type(s))
      [] fn = "lab01.grade_value" -> Returned(lab01_grade_value(s))
      [] fn = "lab04.num_records" -> Returned(lab04_num_records(s))
      [] fn = "lab04.locations" -> Returned(lab04_locations(s))
      [] fn = "lab04.depth_range" -> Returned(lab04_depth_range(s))
      [] fn = "lab04.include_errors" -> Returned(lab04_include_errors(s))
      [] fn = "lab02.grade_thresholds" -> Returned(lab02_generator("grade_thresholds", s))
      [] fn = "lab02.test_samples" -> Returned(lab02_generator("test_samples", s))
      [] fn = "lab02.drilling_depths" -> Returned(lab02_generator("drilling_depths", s))
      [] fn = "lab02.base_rate" -> Returned(lab02_generator("base_rate", s))
      [] fn = "lab03.sample_count" -> Returned(lab03_generator("sample_count", s))
      [] fn = "lab03.rock_types" -> Returned(lab03_generator("rock_types", s))
      [] fn = "lab03.grade_range" -> Returned(lab03_generator("grade_range", s))
      [] fn = "lab05.analysis_columns" -> Returned(lab05_generator("analysis_columns", s))
      [] fn = "lab05.groupby_column" -> Returned(lab05_generator("groupby_column", s))
      [] fn = "lab05.filter_threshold" -> Returned(lab05_generator("filter_threshold", s))
      [] fn = "lab05.num_records" -> Returned(lab05_generator("num_records", s))
      [] fn = "lab06.project_name" -> Returned(lab06_generator("project_name", s))
      [] fn = "lab06.num_drillholes" -> Returned(lab06_generator("num_drillholes", s))
      [] fn = "lab06.target_grade" -> Returned(lab06_generator("target_grade", s))
      [] fn = "lab06.num_samples" -> Returned(lab06_generator("num_samples", s))
      [] fn = "ca01.commodity" -> Returned(ca01_generator("commodity", s))
      [] fn = "ca01.hardness_options" -> Returned(ca01_generator("hardness_options", s))
      [] fn = "ca01.base_drilling_rate" -> Returned(ca01_generator("base_drilling_rate", s))
      [] fn = "ca01.depth_bonus_threshold" -> Returned(ca01_generator("depth_bonus_threshold", s))
      [] fn = "ca01.num_test_samples" -> Returned(ca01_generator("num_test_samples", s))
      [] fn = "ca02.primary_element" -> Returned(ca02_generator("primary_element", s))
      [] fn = "ca02.secondary_elements" -> Returned(ca02_generator("secondary_elements", s))
      [] fn = "ca02.quality_filter" -> Returned(ca02_generator("quality_filter", s))
      [] fn = "ca02.anomaly_threshold_multiplier" -> Returned(ca02_generator("anomaly_threshold_multiplier", s))
      [] fn = "ca02.num_assays" -> Returned(ca02_generator("num_assays", s))
      [] fn = "miniproject.study_area" -> Returned(miniproject_generator("study_area", s))
      [] fn = "miniproject.target_elements" -> Returned(miniproject_generator("target_elements", s))
      [] fn = "miniproject.collector_filter" -> Returned(miniproject_generator("collector_filter", s))
      [] fn = "miniproject.elevation_range" -> Returned(miniproject_generator("elevation_range", s))
      [] fn = "miniproject.anomaly_percentile" -> Returned(miniproject_generator("anomaly_percentile", s))
      [] fn = "miniproject.num_samples" -> Returned(miniproject_generator("num_samples", s))
      [] fn = "caller.zero" -> Returned([v |-> IntV(0), s |-> s])
      [] fn = "caller.two" -> Returned([v |-> IntV(2), s |-> s])
      [] OTHER -> [ok |-> FALSE, exc |-> Exception("ValueError"), s |-> Draw(s).s]

Entry(name, fn) == [name |-> Lit(name), fn |-> fn]

create_lab01_generators ==
    << Entry("sample_depth", "lab01.sample_depth"),
       Entry("sample_mass", "lab01.sample_mass"),
       Entry("sample_volume", "lab01.sample_volume"),
       Entry("rock_type", "lab01.rock_type"),
       Entry("grade_value", "lab01.grade_value") >>

create_lab04_generators ==
    << Entry("num_records", "lab04.num_records"),
       Entry("locations", "lab04.locations"),
       Entry("depth_range", "lab04.depth_range"),
       Entry("include_errors", "lab04.include_errors") >>

create_lab02_generators ==
    << Entry("grade_thresholds", "lab02.grade_thresholds"),
       Entry("test_samples", "lab02.test_samples"),
       Entry("drilling_depths", "lab02.drilling_depths"),
       Entry("base_rate", "lab02.base_rate") >>

create_lab03_generators ==
    << Entry("sample_count", "lab03.sample_count"),
       Entry("rock_types", "lab03.rock_types"),
       Entry("grade_range", "lab03.grade_range") >>

create_lab05_generators ==
    << Entry("analysis_columns", "lab05.analysis_columns"),
       Entry("groupby_column", "lab05.groupby_column"),
       Entry("filter_threshold", "lab05.filter_threshold"),
       Entry("num_records", "lab05.num_records") >>

create_lab06_generators ==
    << Entry("project_name", "lab06.project_name"),
       Entry("num_drillholes", "lab06.num_drillholes"),
       Entry("target_grade", "lab06.target_grade"),
       Entry("num_samples", "lab06.num_samples") >>

create_ca01_generators ==
    << Entry("commodity", "ca01.commodity"),
       Entry("hardness_options", "ca01.hardness_options"),
       Entry("base_drilling_rate", "ca01.base_drilling_rate"),
       Entry("depth_bonus_threshold", "ca01.depth_bonus_threshold"),
       Entry("num_test_samples", "ca01.num_test_samples") >>

create_ca02_generators ==
    << Entry("primary_element", "ca02.primary_element"),
       Entry("secondary_elements", "ca02.secondary_elements"),
       Entry("quality_filter", "ca02.quality_filter"),
       Entry("anomaly_threshold_multiplier", "ca02.anomaly_threshold_multiplier"),
       Entry("num_assays", "ca02.num_assays") >>

create_miniproject_generators ==
    << Entry("study_area", "miniproject.study_area"),
       Entry("target_elements", "miniproject.target_elements"),
       Entry("collector_filter", "miniproject.collector_filter"),
       Entry("elevation_range", "miniproject.elevation_range"),
       Entry("anomaly_percentile", "miniproject.anomaly_percentile"),
       Entry("num_samples", "miniproject.num_samples") >>

ShippedTables == {create_lab01_generators, create_lab04_generators}

\* ASSIGNMENT_GENERATORS[assignment]()
ASSIGNMENT_GENERATORS(assignment) ==
    CASE assignment = "lab01" -> create_lab01_generators
      [] assignment = "lab02" -> create_lab02_generators
      [] assignment = "lab03" -> create_lab03_generators
      [] assignment = "lab04" -> create_lab04_generators
      [] assignment = "lab05" -> create_lab05_generators
      [] assignment = "lab06" -> create_lab06_generators
      [] assignment = "ca01" -> create_ca01_generators
      [] assignment = "ca02" -> create_ca02_generators
      [] assignment = "miniproject" -> create_miniproject_generators

\* Tables a caller may also pass: a shipped table in another insertion order,
\* and a table one of whose functions raises.
ReorderedLab01 ==
    << Entry("rock_type", "lab01.rock_type"),
       Entry("sample_depth", "lab01.sample_depth"),
       Entry("sample_mass", "lab01.sample_mass"),
       Entry("sample_volume", "lab01.sample_volume"),
       Entry("grade_value", "lab01.grade_value") >>

RaisingTable ==
    << Entry("sample_depth", "lab01.sample_depth"),
       Entry("broken", "caller.raises"),
       Entry("rock_type", "lab01.rock_type") >>

Tables == ShippedTables \cup {ReorderedLab01, RaisingTable}

Names(table) == [i \in 1..Len(table) |-> table[i].name]

----------------------------------------------------------------------------
(* Inputs *)

Students == { <<"a", "l">>, <<"b", "\"">> }

AssignmentIds == { <<"l", "a", "b", "0", "1">>, <<"l", "a", "b", "0", "4">> }

Strategies == {"unique", "grouped", "hybrid", "other"}

DefaultSalt == <<"G", "G", "Y">>

Configs ==
    [assignment_id : AssignmentIds, variant_strategy : Strategies,
     num_groups : (0 - 2)..MaxGroups, seed_salt : {DefaultSalt}]

RECURSIVE SeqsUpTo(_, _)
SeqsUpTo(S, n) ==
    IF n = 0 THEN {<<>>}
    ELSE LET shorter == SeqsUpTo(S, n - 1)
         IN shorter \cup {Append(q, x) : q \in {p \in shorter : Len(p) = n - 1}, x \in S}

BatchInputs == SeqsUpTo(Students, MaxBatch)

----------------------------------------------------------------------------
(* State of the calls *)

Unbound == [t |-> "unbound"]

NoCall ==
    [student_id |-> <<>>, table |-> <<>>, seed |-> -1, group_id |-> Unbound,
     parameters |-> <<>>, idx |-> 0]

NewCall(student_id, table) ==
    [student_id |-> student_id, table |-> table, seed |-> -1, group_id |-> Unbound,
     parameters |-> <<>>, idx |-> 0]

NoBatch == [active |-> FALSE, student_ids |-> <<>>, table |-> <<>>, results |-> <<>>]

NoRet == [kind |-> "none"]

NoText == <<>>

NoReadme ==
    [pc |-> "off", template |-> <<>>, variant |-> NoneV, content |-> <<>>,
     before |-> <<>>, idx |-> 0, result |-> <<>>]

\* a file name that does not exist
Absent == [t |-> "absent"]

FileNames == {"samples.csv", "geochemical_assays.csv", ".variant_config.json"}

\* the output directory: whether it exists, whether it can be written, its files
NoDirectory == [exists |-> FALSE, writable |-> TRUE, files |-> [n \in FileNames |-> Absent]]

NoSynth == [kind |-> "none"]

NoCli == [pc |-> "off"]

NoPipeline == [pc |-> "off"]

StudentVariant(student_id, variant_seed, group_id, parameters) ==
    [student_id |-> student_id, variant_seed |-> variant_seed,
     group_id |-> group_id, parameters |-> parameters]

\* parameters[param_name] = value on an insertion-ordered dict
DictSet(d, k, v) ==
    IF \E i \in 1..Len(d) : d[i][1] = k
    THEN [i \in 1..Len(d) |-> IF d[i][1] = k THEN <<k, v>> ELSE d[i]]
    ELSE Append(d, <<k, v>>)

Keys(d) == [i \in 1..Len(d) |-> d[i][1]]

Init ==
    /\ config \in Configs
    /\ pc = "idle"
    /\ call = NoCall
    /\ rng = -1
    /\ trace = <<>>
    /\ batch = NoBatch
    /\ ret = NoRet
    /\ kept = NoRet
    /\ json_text = NoText
    /\ parsed = Unbound
    /\ readme = NoReadme
    /\ fs = NoDirectory
    /\ synth = NoSynth
    /\ cli = NoCli
    /\ pipeline = NoPipeline

----------------------------------------------------------------------------
(* VariantGenerator.generate_variant, statement by statement *)

\* the caller invokes generate_variant(student_id, param_generators)
GenerateVariant(student_id, table) ==
    /\ pc = "idle"
    /\ pc' = "seed"
    /\ call' = NewCall(student_id, table)
    /\ trace' = <<>>
    /\ ret' = NoRet
    /\ json_text' = NoText
    /\ parsed' = Unbound
    /\ UNCHANGED pipeline
    /\ UNCHANGED <<config, rng, batch, kept, readme, fs, synth, cli>>

\* an exception leaves generate_variant, and generate_batch when it is the caller
Raise(exc) ==
    /\ pc' = "idle"
    /\ call' = NoCall
    /\ batch' = NoBatch
    /\ ret' = [kind |-> "error", exc |-> exc,
               op |-> IF batch.active THEN "generate_batch" ELSE "generate_variant",
               student_id |-> call.student_id, student_ids |-> batch.student_ids,
               table |-> call.table]

\* seed = self._compute_seed(student_id)
ComputeSeed ==
    /\ pc = "seed"
    /\ call' = [call EXCEPT !.seed = _compute_seed(config, call.student_id)]
    /\ pc' = "group"
    /\ UNCHANGED pipeline
    /\ UNCHANGED <<config, rng, trace, batch, ret, kept, json_text, parsed, readme, fs, synth, cli>>

\* group_id = self._compute_group(seed) if strategy != 'unique' else None
ComputeGroup ==
    /\ pc = "group"
    /\ IF config.variant_strategy # "unique"
       THEN LET g == _compute_group(call.seed, config.num_groups)
            IN IF g.ok
               THEN /\ call' = [call EXCEPT !.group_id = IntV(g.value)]
                    /\ pc' = "rng"
                    /\ UNCHANGED <<batch, ret>>
               ELSE Raise(Exception(g.error))
       ELSE /\ call' = [call EXCEPT !.group_id = NoneV]
            /\ pc' = "rng"
            /\ UNCHANGED <<batch, ret>>
    /\ UNCHANGED pipeline
    /\ UNCHANGED <<config, rng, trace, kept, json_text, parsed, readme, fs, synth, cli>>

RngSharedAcrossCalls(seed) == IF rng = -1 THEN Random(seed) ELSE rng

\* rng = random.Random(seed)
NewRng(seed) == Random(seed)

\* rng = random.Random(seed); parameters = {}
SeedRng ==
    /\ pc = "rng"
    /\ rng' = NewRng(call.seed)
    /\ call' = [call EXCEPT !.parameters = <<>>, !.idx = 1]
    /\ pc' = "loop"
    /\ UNCHANGED pipeline
    /\ UNCHANGED <<config, trace, batch, ret, kept, json_text, parsed, readme, fs, synth, cli>>

FreshRngPerGenerator(shared, seed) == Random(seed)

\* the rng argument of generator_func(rng, group_id): the one shared instance
RngArgument(shared, seed) == shared

\* one iteration of: for param_name, generator_func in param_generators.items()
InvokeGenerator ==
    /\ pc = "loop"
    /\ call.idx <= Len(call.table)
    /\ LET e == call.table[call.idx]
           arg == RngArgument(rng, call.seed)
           r == Generator(e.fn, arg, call.group_id)
       IN /\ rng' = r.s
          /\ trace' = Append(trace, [name |-> e.name, fn |-> e.fn, before |-> arg,
                                     after |-> r.s, ok |-> r.ok])
          /\ IF r.ok
             THEN /\ call' = [call EXCEPT
                                !.parameters = DictSet(call.parameters, e.name, r.v),
                                !.idx = call.idx + 1]
                  /\ UNCHANGED <<pc, batch, ret>>
             ELSE Raise(r.exc)
    /\ UNCHANGED pipeline
    /\ UNCHANGED <<config, kept, json_text, parsed, readme, fs, synth, cli>>

PrependResult(results, v) == <<v>> \o results

\* the list comprehension of generate_batch collects the results in input order
CollectResult(results, v) == Append(results, v)

\* return StudentVariant(...), to the caller or into generate_batch's list
Return ==
    /\ pc = "loop"
    /\ call.idx > Len(call.table)
    /\ LET v == StudentVariant(call.student_id, call.seed, call.group_id, call.parameters)
       IN IF batch.active
          THEN LET results == CollectResult(batch.results, v)
               IN IF Len(results) < Len(batch.student_ids)
                  THEN /\ batch' = [batch EXCEPT !.results = results]
                       /\ call' = NewCall(batch.student_ids[Len(results) + 1], batch.table)
                       /\ pc' = "seed"
                       /\ trace' = <<>>
                       /\ UNCHANGED ret
                  ELSE /\ ret' = [kind |-> "list", value |-> results,
                                  op |-> "generate_batch",
                                  student_ids |-> batch.student_ids, table |-> batch.table]
                       /\ batch' = NoBatch
                       /\ call' = NoCall
                       /\ pc' = "idle"
                       /\ UNCHANGED trace
          ELSE /\ ret' = [kind |-> "variant", value |-> v, op |-> "generate_variant",
                          student_id |-> call.student_id, table |-> call.table]
               /\ call' = NoCall
               /\ pc' = "idle"
               /\ UNCHANGED <<batch, trace>>
    /\ UNCHANGED pipeline
    /\ UNCHANGED <<config, rng, kept, json_text, parsed, readme, fs, synth, cli>>

\* generate_batch(student_ids, param_generators)
GenerateBatch(student_ids, table) ==
    /\ pc = "idle"
    /\ trace' = <<>>
    /\ json_text' = NoText
    /\ parsed' = Unbound
    /\ IF student_ids = <<>>
       THEN /\ ret' = [kind |-> "list", value |-> <<>>, op |-> "generate_batch",
                       student_ids |-> student_ids, table |-> table]
            /\ UNCHANGED <<pc, call, batch>>
       ELSE /\ batch' = [active |-> TRUE, student_ids |-> student_ids, table |-> table,
                         results |-> <<>>]
            /\ call' = NewCall(student_ids[1], table)
            /\ pc' = "seed"
            /\ ret' = NoRet
    /\ UNCHANGED pipeline
    /\ UNCHANGED <<config, rng, kept, readme, fs, synth, cli>>

----------------------------------------------------------------------------
(* Variant Record Serializer: json.dumps(asdict(variant), indent=2) *)

\* dataclasses.asdict: the fields in declaration order, values copied
asdict(variant) ==
    DictV(<< <<Lit("student_id"), StrV(variant.student_id)>>,
             <<Lit("variant_seed"), IntV(variant.variant_seed)>>,
             <<Lit("group_id"), variant.group_id>>,
             <<Lit("parameters"), DictV(variant.parameters)>> >>)

Digit(d) == <<"0", "1", "2", "3", "4", "5", "6", "7", "8", "9">>[d + 1]

RECURSIVE Digits(_)
Digits(n) == IF n < 10 THEN <<Digit(n)>> ELSE Digits(n \div 10) \o <<Digit(n % 10)>>

\* the low `width` decimal digits of n, leading zeros kept
RECURSIVE PadDigits(_, _)
PadDigits(n, width) ==
    IF width = 0 THEN <<>> ELSE PadDigits(n \div 10, width - 1) \o <<Digit(n % 10)>>

\* int.__repr__
int_repr(n) == IF n < 0 THEN <<"-">> \o Digits(0 - n) ELSE Digits(n)

\* float.__repr__ of a decimal in normal form: always with a fraction part
float_repr(f) ==
    LET a == IF f.num < 0 THEN 0 - f.num ELSE f.num
    IN (IF f.num < 0 THEN <<"-">> ELSE <<>>)
       \o Digits(a \div Pow10(f.exp)) \o <<".">> \o PadDigits(a % Pow10(f.exp), f.exp)

EscapeChunk(c) ==
    IF c = "\"" THEN <<"\\", "\"">>
    ELSE IF c = "\\" THEN <<"\\", "\\">>
    ELSE <<c>>

NotEscaped(text) == text

\* json.encoder.encode_basestring_ascii without the quotes
RECURSIVE Escaped(_)
Escaped(text) ==
    IF text = <<>> THEN <<>> ELSE EscapeChunk(Head(text)) \o Escaped(Tail(text))

Quoted(text) == <<"\"">> \o Escaped(text) \o <<"\"">>

\* json.dumps(indent=...): indent is a number of blanks, or -1 for None.
\* With an indent every item starts on a new, indented line; without one the
\* items follow each other after ", ".
NewlineIndent(indent, level) ==
    IF indent = -1 THEN <<>> ELSE <<"\n">> \o [i \in 1..(indent * level) |-> " "]

ItemSeparator(indent) == IF indent = -1 THEN <<",", " ">> ELSE <<",">>

RECURSIVE Encode(_, _, _), EncodeItems(_, _, _, _), EncodeMembers(_, _, _, _)
Encode(v, indent, level) ==
    CASE v.t = "none" -> <<"n", "u", "l", "l">>
      [] v.t = "int" -> int_repr(v.v)
      [] v.t = "float" -> float_repr(v)
      [] v.t = "str" -> Quoted(v.v)
      [] v.t = "list" ->
            IF v.v = <<>> THEN <<"[", "]">>
            ELSE <<"[">> \o EncodeItems(v.v, 1, indent, level + 1)
                 \o NewlineIndent(indent, level) \o <<"]">>
      [] v.t = "dict" ->
            IF v.v = <<>> THEN <<"{", "}">>
            ELSE <<"{">> \o EncodeMembers(v.v, 1, indent, level + 1)
                 \o NewlineIndent(indent, level) \o <<"}">>

EncodeItems(xs, i, indent, level) ==
    NewlineIndent(indent, level) \o Encode(xs[i], indent, level)
    \o (IF i < Len(xs)
        THEN ItemSeparator(indent) \o EncodeItems(xs, i + 1, indent, level)
        ELSE <<>>)

EncodeMembers(kvs, i, indent, level) ==
    NewlineIndent(indent, level) \o Quoted(kvs[i][1]) \o <<":", " ">>
    \o Encode(kvs[i][2], indent, level)
    \o (IF i < Len(kvs)
        THEN ItemSeparator(indent) \o EncodeMembers(kvs, i + 1, indent, level)
        ELSE <<>>)

json_dumps(v, indent) == Encode(v, indent, 0)

\* a mistake of the serializer: the compact form
CompactConfigFile(variant) == json_dumps(asdict(variant), -1)

generate_variant_config_file(variant) == json_dumps(asdict(variant), 2)

(* json.loads *)

DigitChars == {"0", "1", "2", "3", "4", "5", "6", "7", "8", "9"}

DigitValue(c) == CHOOSE d \in 0..9 : Digit(d) = c

Fail == [ok |-> FALSE]

RECURSIVE SkipWs(_, _)
SkipWs(txt, i) ==
    IF i <= Len(txt) /\ txt[i] \in {" ", "\n"} THEN SkipWs(txt, i + 1) ELSE i

RECURSIVE ScanDigits(_, _, _, _)
ScanDigits(txt, i, acc, count) ==
    IF i <= Len(txt) /\ txt[i] \in DigitChars
    THEN ScanDigits(txt, i + 1, acc * 10 + DigitValue(txt[i]), count + 1)
    ELSE [n |-> acc, count |-> count, i |-> i]

ParseNumber(txt, i) ==
    LET neg == txt[i] = "-"
        ip == ScanDigits(txt, IF neg THEN i + 1 ELSE i, 0, 0)
        frac == ip.i <= Len(txt) /\ txt[ip.i] = "."
        fp == ScanDigits(txt, ip.i + 1, 0, 0)
        sign == IF neg THEN -1 ELSE 1
    IN IF ip.count = 0 THEN Fail
       ELSE IF ~frac THEN [ok |-> TRUE, v |-> IntV(sign * ip.n), i |-> ip.i]
       ELSE IF fp.count = 0 THEN Fail
       ELSE [ok |-> TRUE, i |-> fp.i,
             v |-> NormFloat(sign * (ip.n * Pow10(fp.count) + fp.n), fp.count)]

\* the string whose opening quote is before position i
RECURSIVE ScanString(_, _, _)
ScanString(txt, i, acc) ==
    IF i > Len(txt) THEN Fail
    ELSE IF txt[i] = "\"" THEN [ok |-> TRUE, v |-> acc, i |-> i + 1]
    ELSE IF txt[i] = "\\"
         THEN IF i + 1 <= Len(txt) /\ txt[i + 1] \in {"\"", "\\"}
              THEN ScanString(txt, i + 2, Append(acc, txt[i + 1]))
              ELSE Fail
    ELSE ScanString(txt, i + 1, Append(acc, txt[i]))

RECURSIVE ParseValue(_, _), ParseElements(_, _, _), ParseMembers(_, _, _)
ParseValue(txt, i0) ==
    LET i == SkipWs(txt, i0)
    IN IF i > Len(txt) THEN Fail
       ELSE CASE txt[i] = "{" ->
                   LET j == SkipWs(txt, i + 1)
                   IN IF j <= Len(txt) /\ txt[j] = "}"
                      THEN [ok |-> TRUE, v |-> DictV(<<>>), i |-> j + 1]
                      ELSE ParseMembers(txt, j, <<>>)
              [] txt[i] = "[" ->
                   LET j == SkipWs(txt, i + 1)
                   IN IF j <= Len(txt) /\ txt[j] = "]"
                      THEN [ok |-> TRUE, v |-> ListV(<<>>), i |-> j + 1]
                      ELSE ParseElements(txt, j, <<>>)
              [] txt[i] = "\"" ->
                   LET str == ScanString(txt, i + 1, <<>>)
                   IN IF str.ok THEN [ok |-> TRUE, v |-> StrV(str.v), i |-> str.i]
                      ELSE Fail
              [] txt[i] = "n" ->
                   IF i + 3 <= Len(txt) /\ SubSeq(txt, i, i + 3) = <<"n", "u", "l", "l">>
                   THEN [ok |-> TRUE, v |-> NoneV, i |-> i + 4]
                   ELSE Fail
              [] txt[i] = "-" \/ txt[i] \in DigitChars -> ParseNumber(txt, i)
              [] OTHER -> Fail

ParseElements(txt, i, acc) ==
    LET e == ParseValue(txt, i)
        j == SkipWs(txt, e.i)
    IN IF ~e.ok THEN Fail
       ELSE IF j > Len(txt) THEN Fail
       ELSE IF txt[j] = "," THEN ParseElements(txt, j + 1, Append(acc, e.v))
       ELSE IF txt[j] = "]" THEN [ok |-> TRUE, v |-> ListV(Append(acc, e.v)), i |-> j + 1]
       ELSE Fail

ParseMembers(txt, i, acc) ==
    LET q == SkipWs(txt, i)
        key == ScanString(txt, q + 1, <<>>)
        colon == SkipWs(txt, key.i)
        e == ParseValue(txt, colon + 1)
        j == SkipWs(txt, e.i)
    IN IF q > Len(txt) \/ txt[q] # "\"" THEN Fail
       ELSE IF ~key.ok THEN Fail
       ELSE IF colon > Len(txt) \/ txt[colon] # ":" THEN Fail
       ELSE IF ~e.ok THEN Fail
       ELSE IF j > Len(txt) THEN Fail
       ELSE IF txt[j] = "," THEN ParseMembers(txt, j + 1, DictSet(acc, key.v, e.v))
       ELSE IF txt[j] = "}"
            THEN [ok |-> TRUE, v |-> DictV(DictSet(acc, key.v, e.v)), i |-> j + 1]
       ELSE Fail

json_loads(txt) ==
    LET r == ParseValue(txt, 1)
    IN IF r.ok /\ SkipWs(txt, r.i) > Len(txt) THEN r.v
       ELSE [t |-> "JSONDecodeError"]

\* text = generate_variant_config_file(variant), on a variant generate_variant returned
WriteConfigFile ==
    /\ pc = "idle"
    /\ ret.kind = "variant"
    /\ json_text = NoText
    /\ json_text' = generate_variant_config_file(ret.value)
    /\ UNCHANGED pipeline
    /\ UNCHANGED <<config, pc, call, rng, trace, batch, ret, kept, parsed, readme, fs, synth, cli>>

\* the reader of the file: json.loads(text)
LoadConfigFile ==
    /\ pc = "idle"
    /\ json_text # NoText
    /\ parsed = Unbound
    /\ parsed' = json_loads(json_text)
    /\ UNCHANGED pipeline
    /\ UNCHANGED <<config, pc, call, rng, trace, batch, ret, kept, json_text, readme, fs, synth, cli>>

\* the caller keeps the result of a finished generate_variant call
Keep ==
    /\ pc = "idle"
    /\ ret.kind # "none"
    /\ ret.op = "generate_variant"
    /\ kept # ret
    /\ kept' = ret
    /\ UNCHANGED pipeline
    /\ UNCHANGED <<config, pc, call, rng, trace, batch, ret, json_text, parsed, readme, fs, synth, cli>>

Next ==
    \/ \E sid \in Students, table \in Tables : GenerateVariant(sid, table)
    \/ ComputeSeed
    \/ ComputeGroup
    \/ SeedRng
    \/ InvokeGenerator
    \/ Return
    \/ \E ids \in BatchInputs, table \in Tables : GenerateBatch(ids, table)
    \/ Keep
    \/ WriteConfigFile
    \/ LoadConfigFile

Spec == Init /\ [][Next]_vars

----------------------------------------------------------------------------
(* _compute_group called on its own, over every seed *)

InitGroup ==
    /\ config \in Configs
    /\ pc = "direct"
    /\ call \in {[NoCall EXCEPT !.seed = s] : s \in 0..(SeedSpace - 1)}
    /\ rng = -1
    /\ trace = <<>>
    /\ batch = NoBatch
    /\ ret = NoRet
    /\ kept = NoRet
    /\ json_text = NoText
    /\ parsed = Unbound
    /\ readme = NoReadme
    /\ fs = NoDirectory
    /\ synth = NoSynth
    /\ cli = NoCli
    /\ pipeline = NoPipeline

\* generator._compute_group(seed)
DirectComputeGroup ==
    /\ pc = "direct"
    /\ LET g == _compute_group(call.seed, config.num_groups)
       IN ret' = IF g.ok
                 THEN [kind |-> "group", value |-> g.value, op |-> "_compute_group"]
                 ELSE [kind |-> "error", exc |-> Exception(g.error),
                       op |-> "_compute_group"]
    /\ pc' = "returned"
    /\ UNCHANGED pipeline
    /\ UNCHANGED <<config, call, rng, trace, batch, kept, json_text, parsed, readme, fs, synth, cli>>

SpecGroup == InitGroup /\ [][DirectComputeGroup]_vars

----------------------------------------------------------------------------
(* generate_student_readme(variant, template) *)

\* str(v) of a value
RECURSIVE str(_)
str(v) ==
    CASE v.t = "none" -> <<"None">>
      [] v.t = "int" -> int_repr(v.v)
      [] v.t = "float" -> float_repr(v)
      [] v.t = "str" -> v.v
      [] OTHER -> json_dumps(v, -1)

\* sep.join(parts)
RECURSIVE join(_, _)
join(sep, parts) ==
    IF parts = <<>> THEN <<>>
    ELSE IF Len(parts) = 1 THEN parts[1]
    ELSE parts[1] \o sep \o join(sep, Tail(parts))

\* the isinstance chain that gives value_str
value_str(param_value) ==
    IF param_value.t = "list"
    THEN join(<<",", " ">>, [i \in 1..Len(param_value.v) |-> str(param_value.v[i])])
    ELSE IF param_value.t = "dict" THEN json_dumps(param_value, -1)
    ELSE str(param_value)

Placeholder(param_name) == <<"{">> \o param_name \o <<"}">>

StartsWith(s, prefix) ==
    Len(prefix) <= Len(s) /\ SubSeq(s, 1, Len(prefix)) = prefix

ReplaceFirstOnly(s, old, new) ==
    LET at == {i \in 1..Len(s) : StartsWith(SubSeq(s, i, Len(s)), old)}
    IN IF at = {} THEN s
       ELSE LET i == CHOOSE i \in at : \A j \in at : i <= j
            IN SubSeq(s, 1, i - 1) \o new \o SubSeq(s, i + Len(old), Len(s))

\* s.replace(old, new) for a non-empty old: every occurrence, left to right,
\* without rescanning what was put in
RECURSIVE str_replace(_, _, _)
str_replace(s, old, new) ==
    IF s = <<>> THEN <<>>
    ELSE IF StartsWith(s, old)
         THEN new \o str_replace(SubSeq(s, Len(old) + 1, Len(s)), old, new)
    ELSE <<Head(s)>> \o str_replace(Tail(s), old, new)

\* the metadata comment put before the body
Metadata(variant) ==
    <<"<!--", "\n", "VARIANT_METADATA", "\n", "Student: ">> \o variant.student_id
    \o <<"\n", "Seed: ">> \o int_repr(variant.variant_seed)
    \o <<"\n", "Group: ">> \o str(variant.group_id)
    \o <<"\n", "Generated: AUTO", "\n", "DO NOT MODIFY THIS COMMENT", "\n", "-->">>

\* The templates: up to MaxTemplate pieces put one after the other.  The
\* pieces are placeholders and single characters, so that a template may hold
\* several placeholders, nested braces and unclosed braces.
TemplatePieces ==
    { <<"{", "a", "}">>, <<"{", "b", "}">>, <<"{", "x", "}">>, <<"{">>, <<"}">>, <<"a">> }

RECURSIVE Concatenations(_, _)
Concatenations(S, n) ==
    IF n = 0 THEN {<<>>}
    ELSE LET shorter == Concatenations(S, n - 1)
         IN shorter \cup {q \o x : q \in shorter, x \in S}

Templates == Concatenations(TemplatePieces, MaxTemplate)

\* Parameter values of each kind the renderer tells apart (one of them holds
\* the text of a placeholder)
ReadmeValues ==
    { IntV(300),
      StrV(<<"{", "b", "}">>),
      ListV(<<IntV(1), StrV(Lit("x"))>>),
      DictV(<< <<Lit("min"), IntV(1)>> >>) }

ReadmeParameters ==
    {<<>>}
    \cup { << <<Lit(n), v>> >> : n \in {"a", "b"}, v \in ReadmeValues }
    \cup { << <<Lit(nm[1]), v>>, <<Lit(nm[2]), w>> >> :
             nm \in {<<"a", "b">>, <<"b", "a">>}, v \in ReadmeValues, w \in ReadmeValues }

ReadmeVariants ==
    { StudentVariant(<<"a", "l">>, 7, NoneV, ps) : ps \in ReadmeParameters }

InitReadme ==
    /\ config = [assignment_id |-> <<"l", "a", "b", "0", "1">>, variant_strategy |-> "unique",
                 num_groups |-> 1, seed_salt |-> DefaultSalt]
    /\ pc = "idle"
    /\ call = NoCall
    /\ rng = -1
    /\ trace = <<>>
    /\ batch = NoBatch
    /\ ret = NoRet
    /\ kept = NoRet
    /\ json_text = NoText
    /\ parsed = Unbound
    /\ readme \in {[NoReadme EXCEPT !.pc = "called", !.template = tpl, !.variant = v] :
                     tpl \in Templates, v \in ReadmeVariants}
    /\ fs = NoDirectory
    /\ synth = NoSynth
    /\ cli = NoCli
    /\ pipeline = NoPipeline

\* content = template
ReadmeAssign ==
    /\ readme.pc = "called"
    /\ readme' = [readme EXCEPT !.pc = "loop", !.content = readme.template, !.idx = 1]
    /\ UNCHANGED pipeline
    /\ UNCHANGED <<config, pc, call, rng, trace, batch, ret, kept, json_text, parsed, fs, synth, cli>>

\* one iteration of: for param_name, param_value in variant.parameters.items()
ReadmeSubstitute ==
    /\ readme.pc = "loop"
    /\ readme.idx <= Len(readme.variant.parameters)
    /\ LET param_name == readme.variant.parameters[readme.idx][1]
           param_value == readme.variant.parameters[readme.idx][2]
       IN readme' = [readme EXCEPT
                       !.before = readme.content,
                       !.content = str_replace(readme.content, Placeholder(param_name),
                                               value_str(param_value)),
                       !.idx = readme.idx + 1]
    /\ UNCHANGED pipeline
    /\ UNCHANGED <<config, pc, call, rng, trace, batch, ret, kept, json_text, parsed, fs, synth, cli>>

\* return metadata + "\n\n" + content
ReadmeReturn ==
    /\ readme.pc = "loop"
    /\ readme.idx > Len(readme.variant.parameters)
    /\ readme' = [readme EXCEPT
                    !.pc = "done",
                    !.result = Metadata(readme.variant) \o <<"\n", "\n">> \o readme.content]
    /\ UNCHANGED pipeline
    /\ UNCHANGED <<config, pc, call, rng, trace, batch, ret, kept, json_text, parsed, fs, synth, cli>>

NextReadme ==
    \/ ReadmeAssign
    \/ ReadmeSubstitute
    \/ ReadmeReturn

SpecReadme == InitReadme /\ [][NextReadme]_vars

----------------------------------------------------------------------------
(* Dataset Synthesizer: generate_sample_data(variant, output_path,          *)
(* assignment_type).  output_path is the one directory `fs`.  A CSV file is *)
(* the sequence of its records, each written by one writerow call.  The     *)
(* parameters read are absent or of the                                     *)
(* shape the generators give them: num_records and num_assays integers,     *)
(* locations a non-empty list of names, depth_range with min <= max.        *)

\* an assignment id, the way the hasher and the command line spell it
Chars(id) ==
    CASE id = "lab01" -> <<"l", "a", "b", "0", "1">>
      [] id = "lab02" -> <<"l", "a", "b", "0", "2">>
      [] id = "lab03" -> <<"l", "a", "b", "0", "3">>
      [] id = "lab04" -> <<"l", "a", "b", "0", "4">>
      [] id = "lab05" -> <<"l", "a", "b", "0", "5">>
      [] id = "lab06" -> <<"l", "a", "b", "0", "6">>
      [] id = "ca01" -> <<"c", "a", "0", "1">>
      [] id = "ca02" -> <<"c", "a", "0", "2">>
      [] id = "miniproject" -> <<"m", "i", "n", "i", "p", "r", "o", "j", "e", "c", "t">>
      [] id = "other" -> <<"o">>

\* dict.get(key, default)
dict_get(d, key, default) ==
    IF \E i \in 1..Len(d) : d[i][1] = key
    THEN d[CHOOSE i \in 1..Len(d) : d[i][1] = key][2]
    ELSE default

DefaultNumRecords == 50

DefaultLocations == StrList(<<Lit("Site-A"), Lit("Site-B")>>)

DefaultDepthRange == DictV(<< <<Lit("min"), IntV(50)>>, <<Lit("max"), IntV(500)>> >>)

DefaultNumAssays == 500

Lithologies ==
    <<Lit("Granite"), Lit("Basalt"), Lit("Schist"), Lit("Quartzite"), Lit("Gneiss")>>

Qualities == <<Lit("Good"), Lit("Fair"), Lit("Rejected")>>

SamplesHeader ==
    <<Lit("sample_id"), Lit("rock_type"), Lit("grade"), Lit("depth"), Lit("mass"),
      Lit("location")>>

AssaysHeader ==
    <<Lit("sample_id"), Lit("hole_id"), Lit("from_depth"), Lit("to_depth"),
      Lit("lithology"), Lit("Au_ppm"), Lit("Cu_pct"), Lit("Ag_ppm"), Lit("Fe_pct"),
      Lit("S_pct"), Lit("sample_quality"), Lit("assay_date")>>

\* format(n, "0{width}d")
ZeroPadded(n, width) == IF Len(Digits(n)) >= width THEN Digits(n) ELSE PadDigits(n, width)

\* rng.random() > 0.05, the draw counted in 1024ths
random_above_005(s) == [v |-> Draw(s).v * 100 > 5 * 1024, s |-> Draw(s).s]

\* csv.writer with QUOTE_MINIMAL: a field holding the delimiter, the quote
\* character or a line break is put in quotes, its quotes doubled
RECURSIVE DoubledQuotes(_)
DoubledQuotes(text) ==
    IF text = <<>> THEN <<>>
    ELSE (IF Head(text) = "\"" THEN <<"\"", "\"">> ELSE <<Head(text)>>)
         \o DoubledQuotes(Tail(text))

csv_field(v) ==
    LET text == str(v)
    IN IF v.t = "str" /\ \E c \in Range(text) : c \in {",", "\"", "\r", "\n"}
       THEN <<"\"">> \o DoubledQuotes(text) \o <<"\"">>
       ELSE text

\* the characters of a text as one string
RECURSIVE Flat(_)
Flat(text) == IF text = <<>> THEN "" ELSE Head(text) \o Flat(Tail(text))

\* writer.writerow(fields): the record written, as the sequence of its fields
\* after quoting; on disk they are joined by "," and ended by the line
\* terminator
writerow(fields) == [i \in 1..Len(fields) |-> Flat(csv_field(fields[i]))]

\* a mistake of the record: the location column left out
SamplesRowWithoutLocation(s, i, locations, depth_range) ==
    LET sample_id == StrV(<<"GEO-">> \o ZeroPadded(i, 3))
        rock == choice(s, RockTypes)
        grade == uniform_round(rock.s, 30, 500, 2)
        depth == randint(grade.s, dict_get(depth_range.v, Lit("min"), NoneV).v,
                         dict_get(depth_range.v, Lit("max"), NoneV).v)
        mass == uniform_round(depth.s, 80, 200, 1)
    IN [row |-> <<sample_id, StrV(rock.v), grade.v, IntV(depth.v), mass.v>>,
        s |-> mass.s]

\* a mistake of the depth draw: randint(0, depth_range['max'])
SamplesRowDepthFromZero(s, i, locations, depth_range) ==
    LET sample_id == StrV(<<"GEO-">> \o ZeroPadded(i, 3))
        rock == choice(s, RockTypes)
        grade == uniform_round(rock.s, 30, 500, 2)
        depth == randint(grade.s, 0, dict_get(depth_range.v, Lit("max"), NoneV).v)
        mass == uniform_round(depth.s, 80, 200, 1)
        location == choice(mass.s, locations.v)
    IN [row |-> <<sample_id, StrV(rock.v), grade.v, IntV(depth.v), mass.v, location.v>>,
        s |-> location.s]

\* one iteration of the samples.csv loop: the row and the advanced rng
SamplesRow(s, i, locations, depth_range) ==
    LET sample_id == StrV(<<"GEO-">> \o ZeroPadded(i, 3))
        rock == choice(s, RockTypes)
        grade == uniform_round(rock.s, 30, 500, 2)
        depth == randint(grade.s, dict_get(depth_range.v, Lit("min"), NoneV).v,
                         dict_get(depth_range.v, Lit("max"), NoneV).v)
        mass == uniform_round(depth.s, 80, 200, 1)
        location == choice(mass.s, locations.v)
    IN [row |-> <<sample_id, StrV(rock.v), grade.v, IntV(depth.v), mass.v, location.v>>,
        s |-> location.s]

\* for i in range(first, last + 1): writer.writerow(...), the lines written and
\* the rng after them.  The iterations run in order on the one rng; the range
\* is evaluated half by half (the second half starts on the rng the first
\* half leaves).
RECURSIVE SamplesRows(_, _, _, _, _)
SamplesRows(s, first, last, locations, depth_range) ==
    IF first > last THEN [lines |-> <<>>, s |-> s]
    ELSE IF first = last
         THEN LET r == SamplesRow(s, first, locations, depth_range)
              IN [lines |-> <<writerow(r.row)>>, s |-> r.s]
    ELSE LET mid == (first + last) \div 2
             head == SamplesRows(s, first, mid, locations, depth_range)
             rest == SamplesRows(head.s, mid + 1, last, locations, depth_range)
         IN [lines |-> head.lines \o rest.lines, s |-> rest.s]

\* round(rng.uniform(lo, hi), d) if rng.random() > 0.05 else ''
MaybeMissing(s, lo, hi, d) ==
    LET present == random_above_005(s)
    IN IF present.v THEN uniform_round(present.s, lo, hi, d)
       ELSE [v |-> StrV(<<>>), s |-> present.s]

\* one iteration of the geochemical_assays.csv loop
AssaysRow(s, i) ==
    LET sample_id == StrV(<<"ASY-">> \o ZeroPadded(i, 4))
        hole == randint(s, 1, 5)
        from_depth == randint(hole.s, 10, 450)
        thickness == randint(from_depth.s, 1, 4)
        lithology == choice(thickness.s, Lithologies)
        au == MaybeMissing(lithology.s, 10, 6000, 3)
        cu == MaybeMissing(au.s, 100, 3000, 3)
        ag == MaybeMissing(cu.s, 100, 1500, 2)
        fe == uniform_round(ag.s, 300, 1200, 2)
        sulphur == uniform_round(fe.s, 20, 450, 2)
        quality == choice(sulphur.s, Qualities)
        month == randint(quality.s, 1, 12)
        day == randint(month.s, 1, 28)
    IN [row |-> <<sample_id, StrV(<<"DH-">> \o ZeroPadded(hole.v, 2)),
                  IntV(from_depth.v), IntV(from_depth.v + thickness.v),
                  StrV(lithology.v), au.v, cu.v, ag.v, fe.v, sulphur.v,
                  StrV(quality.v),
                  StrV(<<"2024-">> \o ZeroPadded(month.v, 2) \o <<"-">>
                       \o ZeroPadded(day.v, 2))>>,
        s |-> day.s]

RECURSIVE AssaysRows(_, _, _)
AssaysRows(s, first, last) ==
    IF first > last THEN [lines |-> <<>>, s |-> s]
    ELSE IF first = last
         THEN LET r == AssaysRow(s, first)
              IN [lines |-> <<writerow(r.row)>>, s |-> r.s]
    ELSE LET mid == (first + last) \div 2
             head == AssaysRows(s, first, mid)
             rest == AssaysRows(head.s, mid + 1, last)
         IN [lines |-> head.lines \o rest.lines, s |-> rest.s]

\* a mistake of the type test: lab01 taken for a sample-data type
SamplesTypesWithLab01 == {Chars("lab04"), Chars("lab05"), Chars("ca01"), Chars("lab01")}

SamplesTypes == {Chars("lab04"), Chars("lab05"), Chars("ca01")}

AssaysTypes == {Chars("ca02")}

\* open(output_path / name, 'w'): what it raises, or "" when the file opens
OpenForWriting(dir, name) ==
    IF ~dir.exists THEN "FileNotFoundError"
    ELSE IF ~dir.writable THEN "PermissionError"
    ELSE ""

\* the entries of variant.parameters under `keys`
ParametersRead(variant, keys) ==
    SelectSeq(variant.parameters, LAMBDA kv : kv[1] \in keys)

\* what a generate_sample_data call is given that it reads: the seed, the
\* assignment type and the parameters under `keys`
SynthInputs(variant, assignment_type, keys) ==
    [variant_seed |-> variant.variant_seed, assignment_type |-> assignment_type,
     parameters |-> ParametersRead(variant, keys)]

\* a file written by generate_sample_data, with the inputs of the call that
\* wrote it and the generator tables of the variants it was written from in a
\* row with these inputs
CsvFile(lines, by, table, old) ==
    [t |-> "file", lines |-> lines, by |-> by,
     tables |-> IF old # Absent /\ old.by = by THEN old.tables \cup {table} ELSE {table}]

ContinuesParameterStream(shared, seed) == IF shared = -1 THEN Random(seed) ELSE shared

\* rng = random.Random(variant.variant_seed)
NewSynthRng(shared, seed) == Random(seed)

PoppedParameters(variant, keys) ==
    [variant EXCEPT !.parameters =
        SelectSeq(variant.parameters, LAMBDA kv : kv[1] \notin keys)]

\* the variant object after the .get calls that read `keys` from it
VariantAfterGet(variant, keys) == variant

\* a mistake of the loop bounds: range(1, num_records)
SamplesLinesShort(s, variant) ==
    LET num_records == dict_get(variant.parameters, Lit("num_records"),
                                IntV(DefaultNumRecords))
    IN <<writerow([i \in 1..Len(SamplesHeader) |-> StrV(SamplesHeader[i])])>>
       \o SamplesRows(s, 1, num_records.v - 1, DefaultLocations, DefaultDepthRange).lines

\* the lines of samples.csv
SamplesLines(s, variant) ==
    LET num_records == dict_get(variant.parameters, Lit("num_records"),
                                IntV(DefaultNumRecords))
        locations == dict_get(variant.parameters, Lit("locations"), DefaultLocations)
        depth_range == dict_get(variant.parameters, Lit("depth_range"), DefaultDepthRange)
    IN <<writerow([i \in 1..Len(SamplesHeader) |-> StrV(SamplesHeader[i])])>>
       \o SamplesRows(s, 1, num_records.v, locations, depth_range).lines

\* the lines of geochemical_assays.csv
AssaysLines(s, variant) ==
    LET num_assays == dict_get(variant.parameters, Lit("num_assays"),
                               IntV(DefaultNumAssays))
    IN <<writerow([i \in 1..Len(AssaysHeader) |-> StrV(AssaysHeader[i])])>>
       \o AssaysRows(s, 1, num_assays.v).lines

\* generate_sample_data(variant, output_path, assignment_type), on the variant
\* the last generate_variant call returned
GenerateSampleData(assignment_type) ==
    /\ pc = "idle"
    /\ ret.kind = "variant"
    /\ LET variant == ret.value
           s == NewSynthRng(rng, variant.variant_seed)
           name == IF assignment_type \in SamplesTypes THEN "samples.csv"
                   ELSE "geochemical_assays.csv"
           keys == IF assignment_type \in SamplesTypes
                   THEN {Lit("num_records"), Lit("locations"), Lit("depth_range")}
                   ELSE {Lit("num_assays")}
       IN IF assignment_type \in SamplesTypes \cup AssaysTypes
          THEN /\ ret' = [ret EXCEPT !.value = VariantAfterGet(variant, keys)]
               /\ IF OpenForWriting(fs, name) = ""
                  THEN /\ fs' = [fs EXCEPT !.files[name] =
                                   CsvFile(IF assignment_type \in SamplesTypes
                                           THEN SamplesLines(s, variant)
                                           ELSE AssaysLines(s, variant),
                                           SynthInputs(variant, assignment_type, keys),
                                           ret.table, fs.files[name])]
                       /\ synth' = [kind |-> "returned"]
                  ELSE /\ fs' = fs
                       /\ synth' = [kind |-> "error",
                                    exc |-> Exception(OpenForWriting(fs, name))]
          ELSE /\ synth' = [kind |-> "returned"]
               /\ UNCHANGED <<fs, ret>>
    /\ UNCHANGED pipeline
    /\ UNCHANGED <<config, pc, call, rng, trace, batch, kept, json_text, parsed, readme,
                   cli>>

\* path.mkdir(parents=True, exist_ok=True): what it raises ("" when nothing)
\* and the directory after it
mkdir(dir) ==
    IF dir.exists THEN [error |-> "", dir |-> dir]
    ELSE IF ~dir.writable THEN [error |-> "PermissionError", dir |-> dir]
    ELSE [error |-> "", dir |-> [dir EXCEPT !.exists = TRUE]]

\* the caller creates the output directory
Mkdir ==
    /\ pc = "idle"
    /\ ~fs.exists
    /\ mkdir(fs).error = ""
    /\ fs' = mkdir(fs).dir
    /\ UNCHANGED pipeline
    /\ UNCHANGED <<config, pc, call, rng, trace, batch, ret, kept, json_text, parsed,
                   readme, synth, cli>>

\* Tables of a caller: functions that return a fixed value and draw nothing
ConstantTable(n) ==
    << Entry("num_records", IF n = 0 THEN "caller.zero" ELSE "caller.two"),
       Entry("num_assays", IF n = 0 THEN "caller.zero" ELSE "caller.two") >>

\* the same parameters, after a function that draws from the stream
DrawingConstantTable ==
    << Entry("include_errors", "lab04.include_errors") >> \o ConstantTable(2)

SynthTables == {<<>>, ConstantTable(0), ConstantTable(2), create_lab04_generators}

SynthTypes ==
    {Chars(id) : id \in {"lab04", "lab05", "ca01", "ca02", "lab01", "other"}}

\* the student of the data runs
SynthStudent == <<"a", "l">>

InitData ==
    /\ config \in {[assignment_id |-> Chars(id), variant_strategy |-> "grouped",
                     num_groups |-> MaxGroups, seed_salt |-> DefaultSalt] :
                     id \in {"lab04", "ca02"}}
    /\ pc = "idle"
    /\ call = NoCall
    /\ rng = -1
    /\ trace = <<>>
    /\ batch = NoBatch
    /\ ret = NoRet
    /\ kept = NoRet
    /\ json_text = NoText
    /\ parsed = Unbound
    /\ readme = NoReadme
    /\ fs = NoDirectory
    /\ synth = NoSynth
    /\ cli = NoCli
    /\ pipeline = NoPipeline

NextData ==
    \/ \E table \in SynthTables : GenerateVariant(SynthStudent, table)
    \/ ComputeSeed
    \/ ComputeGroup
    \/ SeedRng
    \/ InvokeGenerator
    \/ Return
    \/ \E assignment_type \in SynthTypes : GenerateSampleData(assignment_type)
    \/ Mkdir

SpecData == InitData /\ [][NextData]_vars

(* generate_sample_data on variants of one seed made from different tables *)

StreamTables == {ConstantTable(2), DrawingConstantTable}

StreamTypes == {Chars(id) : id \in {"lab04", "ca01", "ca02", "lab01"}}

NextStreams ==
    \/ \E table \in StreamTables : GenerateVariant(SynthStudent, table)
    \/ ComputeSeed
    \/ ComputeGroup
    \/ SeedRng
    \/ InvokeGenerator
    \/ Return
    \/ \E assignment_type \in StreamTypes : GenerateSampleData(assignment_type)
    \/ Mkdir

SpecStreams == InitData /\ [][NextStreams]_vars

(* A caller of the library: every operation, on variants it holds *)

\* the templates of the caller: one with a placeholder of a parameter, one without
CallTemplates ==
    { <<"n", "=">> \o Placeholder(Lit("num_records")), <<"{", "x", "}">> }

CallBatches == { <<SynthStudent>>, <<SynthStudent, SynthStudent>> }

CallTypes == {Chars(id) : id \in {"lab04", "ca02", "lab01"}}

\* generate_student_readme(variant, template) is called on the variant the last
\* generate_variant call returned
StudentReadme(template) ==
    /\ pc = "idle"
    /\ ret.kind = "variant"
    /\ readme.pc \in {"off", "done"}
    /\ readme' = [NoReadme EXCEPT !.pc = "called", !.template = template,
                                  !.variant = ret.value]
    /\ UNCHANGED pipeline
    /\ UNCHANGED <<config, pc, call, rng, trace, batch, ret, kept, json_text, parsed,
                   fs, synth, cli>>

NextCalls ==
    \/ \E table \in StreamTables : GenerateVariant(SynthStudent, table)
    \/ ComputeSeed
    \/ ComputeGroup
    \/ SeedRng
    \/ InvokeGenerator
    \/ Return
    \/ \E ids \in CallBatches, table \in StreamTables : GenerateBatch(ids, table)
    \/ Keep
    \/ WriteConfigFile
    \/ LoadConfigFile
    \/ \E template \in CallTemplates : StudentReadme(template)
    \/ ReadmeAssign
    \/ ReadmeSubstitute
    \/ ReadmeReturn
    \/ \E assignment_type \in CallTypes : GenerateSampleData(assignment_type)
    \/ Mkdir

SpecCalls == InitData /\ [][NextCalls]_vars

----------------------------------------------------------------------------
(* The lab01 scenario: assignment lab01, strategy grouped, the default       *)
(* number of groups, over many student ids                                   *)

DefaultGroups == 10

ScenarioStudents ==
    SeqsUpTo({"a", "b", "l", "o"}, MaxIdLen) \cup {<<"a", "l", "i", "c", "e">>}

InitScenario ==
    /\ config = [assignment_id |-> Chars("lab01"), variant_strategy |-> "grouped",
                 num_groups |-> DefaultGroups, seed_salt |-> DefaultSalt]
    /\ pc = "idle"
    /\ call = NoCall
    /\ rng = -1
    /\ trace = <<>>
    /\ batch = NoBatch
    /\ ret = NoRet
    /\ kept = NoRet
    /\ json_text = NoText
    /\ parsed = Unbound
    /\ readme = NoReadme
    /\ fs = NoDirectory
    /\ synth = NoSynth
    /\ cli = NoCli
    /\ pipeline = NoPipeline

NextScenario ==
    \/ \E sid \in ScenarioStudents : GenerateVariant(sid, create_lab01_generators)
    \/ ComputeSeed
    \/ ComputeGroup
    \/ SeedRng
    \/ InvokeGenerator
    \/ Return

SpecScenario == InitScenario /\ [][NextScenario]_vars

----------------------------------------------------------------------------
(* Several VariantGenerator objects, one after the other: the same student *)
(* under other configurations                                              *)

\* assignment ids, salts and student ids with and without ':' in them, so
\* that different triples give the same joined string
GeneratorConfigs ==
    [assignment_id : {<<"a">>, <<"a", ":", "b">>},
     variant_strategy : {"unique", "grouped", "hybrid"},
     num_groups : 1..MaxGroups, seed_salt : {<<"b">>, <<"c">>, <<"b", ":", "c">>}]

GeneratorStudents == {<<"l">>, <<"c", ":", "l">>}

GeneratorTables == {create_lab01_generators, create_lab06_generators}

InitGenerators ==
    /\ config \in GeneratorConfigs
    /\ pc = "idle"
    /\ call = NoCall
    /\ rng = -1
    /\ trace = <<>>
    /\ batch = NoBatch
    /\ ret = NoRet
    /\ kept = NoRet
    /\ json_text = NoText
    /\ parsed = Unbound
    /\ readme = NoReadme
    /\ fs = NoDirectory
    /\ synth = NoSynth
    /\ cli = NoCli
    /\ pipeline = NoPipeline

\* generator = VariantGenerator(cfg): self.config = cfg; it has returned nothing yet
NewGenerator(cfg) ==
    /\ pc = "idle"
    /\ cfg # config
    /\ config' = cfg
    /\ ret' = NoRet
    /\ UNCHANGED <<pc, call, rng, trace, batch, kept, json_text, parsed, readme, fs,
                   synth, cli, pipeline>>

\* the caller keeps a variant together with the configuration that gave it
KeepWithConfig ==
    /\ pc = "idle"
    /\ ret.kind = "variant"
    /\ kept = NoRet
    /\ kept' = [kind |-> "variant", value |-> ret.value, op |-> ret.op,
                student_id |-> ret.student_id, table |-> ret.table, config |-> config]
    /\ UNCHANGED <<config, pc, call, rng, trace, batch, ret, json_text, parsed, readme,
                   fs, synth, cli, pipeline>>

NextGenerators ==
    \/ \E cfg \in GeneratorConfigs : NewGenerator(cfg)
    \/ \E sid \in GeneratorStudents, table \in GeneratorTables : GenerateVariant(sid, table)
    \/ ComputeSeed
    \/ ComputeGroup
    \/ SeedRng
    \/ InvokeGenerator
    \/ Return
    \/ KeepWithConfig

SpecGenerators == InitGenerators /\ [][NextGenerators]_vars

----------------------------------------------------------------------------
(* The command line: python variant_generator.py --assignment A --student S *)
(* [--strategy T] [--groups N] [--output O] [--output-dir D], statement by  *)
(* statement.  D is the one directory `fs`.                                 *)

AssignmentChoices ==
    {"lab01", "lab02", "lab03", "lab04", "lab05", "lab06", "ca01", "ca02", "miniproject"}

StrategyChoices == {"unique", "grouped", "hybrid"}

OutputChoices == {"json", "config"}

\* command lines: the assignment and strategy also with a value outside the
\* choices, the groups also 0
CliArgs ==
    [assignment : AssignmentChoices \cup {"other"}, student : Students,
     strategy : StrategyChoices \cup {"other"}, groups : {DefaultGroups, 0},
     output : OutputChoices, output_dir : BOOLEAN]

NoConfig == [assignment_id |-> <<>>, variant_strategy |-> "", num_groups |-> 0,
             seed_salt |-> <<>>]

ExitStatusZero(exc) == 0

\* the status the interpreter exits with: 1 after an uncaught exception
ExitStatus(exc) == IF exc = "" THEN 0 ELSE 1

\* the script ends: normally, or by an exception nothing catches
Exit(exc) == [cli EXCEPT !.pc = "exited", !.status = ExitStatus(exc), !.exc = exc]

InitCli ==
    /\ config = NoConfig
    /\ pc = "idle"
    /\ call = NoCall
    /\ rng = -1
    /\ trace = <<>>
    /\ batch = NoBatch
    /\ ret = NoRet
    /\ kept = NoRet
    /\ json_text = NoText
    /\ parsed = Unbound
    /\ readme = NoReadme
    /\ fs \in {[NoDirectory EXCEPT !.exists = e, !.writable = w] :
                 e \in BOOLEAN, w \in BOOLEAN}
    /\ synth = NoSynth
    /\ cli \in {[pc |-> "start", args |-> a, stdout |-> <<>>, status |-> -1, exc |-> ""] :
                  a \in CliArgs}
    /\ pipeline = NoPipeline

\* args = parser.parse_args(): a value outside the choices ends the run with
\* status 2
ParseArgs ==
    /\ cli.pc = "start"
    /\ cli' = IF /\ cli.args.assignment \in AssignmentChoices
                 /\ cli.args.strategy \in StrategyChoices
                 /\ cli.args.output \in OutputChoices
              THEN [cli EXCEPT !.pc = "parsed"]
              ELSE [cli EXCEPT !.pc = "exited", !.status = 2, !.exc = "SystemExit"]
    /\ UNCHANGED pipeline
    /\ UNCHANGED <<config, pc, call, rng, trace, batch, ret, kept, json_text, parsed,
                   readme, fs, synth>>

\* config = VariantConfig(...); generator = VariantGenerator(config)
Configure ==
    /\ cli.pc = "parsed"
    /\ config' = [assignment_id |-> Chars(cli.args.assignment),
                  variant_strategy |-> cli.args.strategy,
                  num_groups |-> cli.args.groups, seed_salt |-> DefaultSalt]
    /\ cli' = [cli EXCEPT !.pc = "generate"]
    /\ UNCHANGED pipeline
    /\ UNCHANGED <<pc, call, rng, trace, batch, ret, kept, json_text, parsed, readme,
                   fs, synth>>

\* variant = generator.generate_variant(args.student, param_generators)
CliGenerate ==
    /\ cli.pc = "generate"
    /\ ret = NoRet
    /\ GenerateVariant(cli.args.student, ASSIGNMENT_GENERATORS(cli.args.assignment))

\* generate_variant raised: nothing catches it
CliGenerateRaised ==
    /\ cli.pc = "generate"
    /\ pc = "idle"
    /\ ret.kind = "error"
    /\ cli' = Exit(ret.exc.type)
    /\ UNCHANGED pipeline
    /\ UNCHANGED <<config, pc, call, rng, trace, batch, ret, kept, json_text, parsed,
                   readme, fs, synth>>

\* print(json.dumps(asdict(variant), indent=2)) or
\* print(generate_variant_config_file(variant)); without --output-dir the
\* script ends here
CliPrint ==
    /\ cli.pc = "generate"
    /\ pc = "idle"
    /\ ret.kind = "variant"
    /\ LET text == IF cli.args.output = "json" THEN json_dumps(asdict(ret.value), 2)
                   ELSE generate_variant_config_file(ret.value)
           printed == [cli EXCEPT !.stdout = Append(cli.stdout, text)]
       IN cli' = IF cli.args.output_dir THEN [printed EXCEPT !.pc = "mkdir"]
                 ELSE [printed EXCEPT !.pc = "exited", !.status = ExitStatus("")]
    /\ UNCHANGED pipeline
    /\ UNCHANGED <<config, pc, call, rng, trace, batch, ret, kept, json_text, parsed,
                   readme, fs, synth>>

\* a mistake of the script: the directory is not created before the data
\* files are written
CliWithoutMkdir ==
    /\ cli.pc = "mkdir"
    /\ fs' = fs
    /\ cli' = [cli EXCEPT !.pc = "data"]
    /\ UNCHANGED pipeline
    /\ UNCHANGED <<config, pc, call, rng, trace, batch, ret, kept, json_text, parsed,
                   readme, synth>>

\* args.output_dir.mkdir(parents=True, exist_ok=True)
CliMkdir ==
    /\ cli.pc = "mkdir"
    /\ fs' = mkdir(fs).dir
    /\ cli' = IF mkdir(fs).error = "" THEN [cli EXCEPT !.pc = "data"]
              ELSE Exit(mkdir(fs).error)
    /\ UNCHANGED pipeline
    /\ UNCHANGED <<config, pc, call, rng, trace, batch, ret, kept, json_text, parsed,
                   readme, synth>>

\* generate_sample_data(variant, args.output_dir, args.assignment)
CliData ==
    /\ cli.pc = "data"
    /\ synth = NoSynth
    /\ GenerateSampleData(Chars(cli.args.assignment))

\* generate_sample_data raised: nothing catches it
CliDataRaised ==
    /\ cli.pc = "data"
    /\ synth.kind = "error"
    /\ cli' = Exit(synth.exc.type)
    /\ UNCHANGED pipeline
    /\ UNCHANGED <<config, pc, call, rng, trace, batch, ret, kept, json_text, parsed,
                   readme, fs, synth>>

\* with open(args.output_dir / '.variant_config.json', 'w') as f:
\*     f.write(generate_variant_config_file(variant))
CliSidecar ==
    /\ cli.pc = "data"
    /\ synth.kind = "returned"
    /\ IF OpenForWriting(fs, ".variant_config.json") = ""
       THEN /\ fs' = [fs EXCEPT !.files[".variant_config.json"] =
                        [t |-> "file", text |-> generate_variant_config_file(ret.value)]]
            /\ cli' = [cli EXCEPT !.pc = "report"]
       ELSE /\ fs' = fs
            /\ cli' = Exit(OpenForWriting(fs, ".variant_config.json"))
    /\ UNCHANGED pipeline
    /\ UNCHANGED <<config, pc, call, rng, trace, batch, ret, kept, json_text, parsed,
                   readme, synth>>

\* print(f"Data files generated in: {args.output_dir}"), the last statement
CliReport ==
    /\ cli.pc = "report"
    /\ cli' = [cli EXCEPT !.pc = "exited", !.status = ExitStatus(""),
                          !.stdout = Append(cli.stdout,
                                            <<"Data files generated in: ", "out">>)]
    /\ UNCHANGED pipeline
    /\ UNCHANGED <<config, pc, call, rng, trace, batch, ret, kept, json_text, parsed,
                   readme, fs, synth>>

NextCli ==
    \/ ParseArgs
    \/ Configure
    \/ CliGenerate
    \/ ComputeSeed
    \/ ComputeGroup
    \/ SeedRng
    \/ InvokeGenerator
    \/ Return
    \/ CliGenerateRaised
    \/ CliPrint
    \/ CliMkdir
    \/ CliData
    \/ CliDataRaised
    \/ CliSidecar
    \/ CliReport

SpecCli == InitCli /\ [][NextCli]_vars

----------------------------------------------------------------------------
(* The analysis pipeline: src/src/data_loader.py, data_processor.py,        *)
(* analyzer.py and main.py.  A table (DataFrame) is a sequence of rows;     *)
(* grades and depths are in tenths, NaN is a missing value.                 *)

NaN == [t |-> "nan"]

Row(sample_id, hole_id, from_depth, grade) ==
    [sample_id |-> sample_id, hole_id |-> hole_id, from_depth |-> from_depth,
     grade |-> grade]

\* Rows as the tables of the tests have them: valid rows (two of them on the
\* class boundaries of the cutoff 2.0), a negative grade, a negative depth, a
\* missing grade, a missing depth with a grade above 100, a repeated sample id
Rows ==
    { Row("GEO-001", "DH-01", IntV(100), IntV(25)), Row("GEO-002", "DH-01", IntV(155), IntV(-5)),
      Row("GEO-003", "DH-02", IntV(-50), IntV(32)), Row("GEO-004", "DH-02", IntV(250), NaN),
      Row("GEO-005", "DH-03", IntV(300), IntV(20)), Row("GEO-006", "DH-03", IntV(350), IntV(40)),
      Row("GEO-007", "DH-04", NaN, IntV(1500)), Row("GEO-001", "DH-01", IntV(500), IntV(35)) }

Frame(rows) == [t |-> "frame", rows |-> rows]

Frames == {Frame(rows) : rows \in SeqsUpTo(Rows, MaxRows)}

\* cutoff=2.0 and threshold=2.0 of the tests, and a second value
Cutoffs == {20, 35}

\* hole_ids / config['drillholes']: None or a list of ids
HoleIdLists == {NoneV, ListV(<<"DH-01", "DH-02">>), ListV(<<"DH-04">>)}

\* def classify_grade(df, cutoff): the body is `pass`
classify_grade(df, cutoff) == NoneV

\* def identify_high_grade_zones(df, threshold): the body is `pass`
identify_high_grade_zones(df, threshold) == NoneV

\* def clean_data(df): the body is `pass`
clean_data(df) == NoneV

\* def filter_by_drillhole(df, hole_ids): the body is `pass`
filter_by_drillhole(df, hole_ids) == NoneV

\* def run_pipeline(config): the body is `pass`; nothing is read or written
run_pipeline(cfg) == [raised |-> "", value |-> NoneV, written |-> {}]

\* a caller holds the table df; in output_dir there is nothing yet
InitPipeline ==
    /\ config = NoConfig
    /\ pc = "idle"
    /\ call = NoCall
    /\ rng = -1
    /\ trace = <<>>
    /\ batch = NoBatch
    /\ ret = NoRet
    /\ kept = NoRet
    /\ json_text = NoText
    /\ parsed = Unbound
    /\ readme = NoReadme
    /\ fs = NoDirectory
    /\ synth = NoSynth
    /\ cli = NoCli
    /\ pipeline \in {[pc |-> "idle", df |-> df, op |-> "none", arg |-> NoneV,
                      result |-> Unbound, written |-> {}] : df \in Frames}

\* result = op(df, arg): the call returns, the table of the caller is as the
\* function left it
Called(op, df, arg, result) ==
    /\ pipeline.pc = "idle"
    /\ pipeline' = [pipeline EXCEPT !.op = op, !.df = df, !.arg = arg, !.result = result]
    /\ UNCHANGED <<config, pc, call, rng, trace, batch, ret, kept, json_text, parsed,
                   readme, fs, synth, cli>>

ClassifyGrade(cutoff) ==
    Called("classify_grade", pipeline.df, IntV(cutoff), classify_grade(pipeline.df, cutoff))

IdentifyHighGradeZones(threshold) ==
    Called("identify_high_grade_zones", pipeline.df, IntV(threshold),
           identify_high_grade_zones(pipeline.df, threshold))

CleanData == Called("clean_data", pipeline.df, NoneV, clean_data(pipeline.df))

FilterByDrillhole(hole_ids) ==
    Called("filter_by_drillhole", pipeline.df, hole_ids,
           filter_by_drillhole(pipeline.df, hole_ids))

\* results = run_pipeline(config), the input file holding the table df
RunPipeline(target_grade, drillholes) ==
    /\ pipeline.pc = "idle"
    /\ pipeline.df.rows # <<>>
    /\ LET r == run_pipeline([input_file |-> pipeline.df, target_grade |-> target_grade,
                              drillholes |-> drillholes])
       IN /\ r.raised = ""
          /\ pipeline' = [pipeline EXCEPT !.op = "run_pipeline", !.arg = drillholes,
                                          !.result = r.value,
                                          !.written = pipeline.written \cup r.written]
    /\ UNCHANGED <<config, pc, call, rng, trace, batch, ret, kept, json_text, parsed,
                   readme, fs, synth, cli>>

NextPipeline ==
    \/ \E cutoff \in Cutoffs : ClassifyGrade(cutoff)
    \/ \E threshold \in Cutoffs : IdentifyHighGradeZones(threshold)
    \/ CleanData
    \/ \E hole_ids \in HoleIdLists : FilterByDrillhole(hole_ids)
    \/ \E target_grade \in Cutoffs, drillholes \in HoleIdLists :
          RunPipeline(target_grade, drillholes)

SpecPipeline == InitPipeline /\ [][NextPipeline]_vars

(* python main.py: the __main__ block, statement by statement *)

\* A run_pipeline as its docstring describes it (Raises, Returns), for the
\* script completed by its user: FileNotFoundError without the input file,
\* EmptyDataError from an empty one, else the dictionary of results
CompletedPipeline(input_file) ==
    IF input_file = Absent
    THEN [raised |-> "FileNotFoundError", value |-> NoneV, written |-> {}]
    ELSE IF input_file.rows = <<>>
    THEN [raised |-> "EmptyDataError", value |-> NoneV, written |-> {}]
    ELSE [raised |-> "",
          value |-> DictV(<< <<"validation",
                               DictV(<< <<"total_records", IntV(Len(input_file.rows))>>,
                                        <<"valid_records", IntV(Len(input_file.rows))>> >>)>>,
                             <<"statistics", Frame(<<>>)>>,
                             <<"high_grade_count", IntV(0)>>,
                             <<"output_files", ListV(<<"summary_report.md">>)>> >>),
          written |-> {"summary_report.md"}]

\* the run_pipeline the script calls: the shipped one, or a completed one
PipelineOf(implementation, input_file) ==
    IF implementation = "shipped"
    THEN run_pipeline([input_file |-> input_file, target_grade |-> 20, drillholes |-> NoneV])
    ELSE CompletedPipeline(input_file)

SuccessLine == "Pipeline completed successfully!"

ExceptSwallowsAll(exc) == [messages |-> <<"Error during pipeline execution">>, reraise |-> FALSE]

\* except FileNotFoundError as e: two prints; except Exception as e: print, raise
except_clause(exc) ==
    IF exc = "FileNotFoundError"
    THEN [messages |-> <<"Error: Input file not found",
                         "Make sure 'data/prospect_data.csv' exists.">>,
          reraise |-> FALSE]
    ELSE [messages |-> <<"Error during pipeline execution">>, reraise |-> TRUE]

\* data/prospect_data.csv is missing or holds a table
InitMain ==
    /\ config = NoConfig
    /\ pc = "idle"
    /\ call = NoCall
    /\ rng = -1
    /\ trace = <<>>
    /\ batch = NoBatch
    /\ ret = NoRet
    /\ kept = NoRet
    /\ json_text = NoText
    /\ parsed = Unbound
    /\ readme = NoReadme
    /\ fs = NoDirectory
    /\ synth = NoSynth
    /\ cli = NoCli
    /\ pipeline \in {[pc |-> "start", implementation |-> impl, input_file |-> f,
                      results |-> Unbound, stdout |-> <<>>, exc |-> "", uncaught |-> "",
                      status |-> -1, written |-> {}] :
                        impl \in {"shipped", "completed"}, f \in Frames \cup {Absent}}

MainStep(next) ==
    /\ pipeline' = next
    /\ UNCHANGED <<config, pc, call, rng, trace, batch, ret, kept, json_text, parsed,
                   readme, fs, synth, cli>>

\* the prints before the try statement
MainBanner ==
    /\ pipeline.pc = "start"
    /\ MainStep([pipeline EXCEPT !.pc = "try",
                   !.stdout = <<"GGY3601 Lab 6: Integration Project Pipeline",
                                "Starting pipeline execution...">>])

\* results = run_pipeline(config)
MainRunPipeline ==
    /\ pipeline.pc = "try"
    /\ LET r == PipelineOf(pipeline.implementation, pipeline.input_file)
       IN MainStep(IF r.raised # ""
                   THEN [pipeline EXCEPT !.pc = "except", !.exc = r.raised]
                   ELSE [pipeline EXCEPT !.pc = "returned", !.results = r.value,
                                         !.written = r.written])

\* print("Pipeline completed successfully!")
MainCompleted ==
    /\ pipeline.pc = "returned"
    /\ MainStep([pipeline EXCEPT !.pc = "summary",
                                 !.stdout = Append(pipeline.stdout, SuccessLine)])

\* the prints that read results['validation']['valid_records'],
\* results['high_grade_count'] and results['output_files']; the script ends
\* after them
MainSummary ==
    /\ pipeline.pc = "summary"
    /\ MainStep(IF pipeline.results.t # "dict"
                THEN [pipeline EXCEPT !.pc = "except", !.exc = "TypeError"]
                ELSE [pipeline EXCEPT !.pc = "exited", !.status = 0,
                                      !.stdout = pipeline.stdout
                                                 \o <<"Results Summary:", "Output files saved to:">>])

\* the except clauses: the script ends normally or by the exception raised again
MainExcept ==
    /\ pipeline.pc = "except"
    /\ LET h == except_clause(pipeline.exc)
       IN MainStep([pipeline EXCEPT !.pc = "exited",
                                    !.stdout = pipeline.stdout \o h.messages,
                                    !.uncaught = IF h.reraise THEN pipeline.exc ELSE "",
                                    !.status = IF h.reraise THEN 1 ELSE 0])

NextMain ==
    \/ MainBanner
    \/ MainRunPipeline
    \/ MainCompleted
    \/ MainSummary
    \/ MainExcept

SpecMain == InitMain /\ [][NextMain]_vars

----------------------------------------------------------------------------
(* Claims *)

SameInputs(a, b) == a.student_id = b.student_id /\ a.table = b.table

FromVariantCall(r) == r.kind \in {"variant", "error"} /\ r.op = "generate_variant"

\* C1: generate_variant is deterministic: two calls with the same student id,
\* configuration and generator table give the same seed, group and parameters
\* (and fail alike), whatever calls ran in between; the seed computed for a
\* student is the one every earlier call computed for that student.
C1_Deterministic ==
    /\ (pc = "idle" /\ FromVariantCall(ret) /\ FromVariantCall(kept)
          /\ SameInputs(ret, kept))
       => ret = kept
    /\ (call.seed # -1 /\ kept.kind = "variant" /\ kept.student_id = call.student_id)
       => call.seed = kept.value.variant_seed

C1_Witness ==
    /\ pc = "idle"
    /\ ret.kind = "variant"
    /\ kept.kind = "variant"
    /\ SameInputs(ret, kept)
    /\ Len(ret.value.parameters) > 0

\* C2: for every seed and every num_groups = g >= 1, _compute_group(seed) is
\* seed mod g and lies in [0, g).
C2_GroupInRange ==
    (pc = "returned" /\ config.num_groups >= 1)
    => /\ ret.kind = "group"
       /\ ret.value = call.seed % config.num_groups
       /\ 0 <= ret.value
       /\ ret.value < config.num_groups

C2_Witness ==
    /\ pc = "returned"
    /\ config.num_groups = MaxGroups
    /\ ret.kind = "group"
    /\ ret.value = MaxGroups - 1
    /\ call.seed > MaxGroups

\* C3: for every num_groups <= 0 and every seed, computing the group fails with
\* an InvalidConfiguration error and returns no group id.
C3_RejectsNonPositiveGroups ==
    (pc = "returned" /\ config.num_groups <= 0)
    => /\ ret.kind = "error"
       /\ ret.exc.type = "InvalidConfiguration"

\* C4: in every StudentVariant returned by generate_variant, group_id is None
\* exactly when the strategy is "unique", and otherwise an integer in
\* [0, num_groups).
C4_GroupIffNotUnique ==
    (pc = "idle" /\ ret.kind = "variant")
    => LET g == ret.value.group_id
       IN /\ (g = NoneV) <=> (config.variant_strategy = "unique")
          /\ (config.variant_strategy # "unique")
             => /\ g.t = "int"
                /\ 0 <= g.v
                /\ g.v < config.num_groups

\* C5: generate_batch returns one variant per input id, in input order
\* (empty and repeated ids included), and each element is the variant an
\* independent generate_variant call returns for that id, whatever else is in
\* the batch.
C5_BatchIsPerStudent ==
    /\ (pc = "idle" /\ ret.kind = "list")
       => /\ Len(ret.value) = Len(ret.student_ids)
          /\ \A i \in 1..Len(ret.value) :
                /\ ret.value[i].student_id = ret.student_ids[i]
                /\ (FromVariantCall(kept) /\ kept.student_id = ret.student_ids[i]
                      /\ kept.table = ret.table)
                   => (kept.kind = "variant" /\ ret.value[i] = kept.value)
    /\ batch.active
       => \A i \in 1..Len(batch.results) :
             (kept.kind = "variant" /\ kept.student_id = batch.student_ids[i]
                /\ kept.table = batch.table)
             => batch.results[i] = kept.value

C5_Witness ==
    /\ pc = "idle"
    /\ ret.kind = "list"
    /\ Len(ret.value) = MaxBatch
    /\ ret.student_ids[1] # ret.student_ids[MaxBatch]
    /\ kept.kind = "variant"
    /\ kept.student_id = ret.student_ids[MaxBatch]
    /\ kept.table = ret.table
    /\ Len(kept.value.parameters) > 0

RaisedByGenerator == trace # <<>> /\ ~trace[Len(trace)].ok

\* C6: when a generator function raises, no StudentVariant is returned and the
\* error reaching the caller carries the failing parameter's name and the
\* assignment id.
C6_ErrorNamesParameter ==
    (pc = "idle" /\ RaisedByGenerator)
    => /\ ret.kind = "error"
       /\ [param_name |-> trace[Len(trace)].name] \in ret.exc.attached
       /\ [assignment_id |-> config.assignment_id] \in ret.exc.attached

InvalidConfiguration(cfg) ==
    \/ cfg.num_groups <= 0
    \/ cfg.variant_strategy \notin {"unique", "grouped", "hybrid"}

\* C7: a configuration with num_groups <= 0 or an unknown strategy is rejected
\* before any generation work: under it no seed is ever computed, no generator
\* is invoked and no StudentVariant is produced.
C7_RejectedEagerly ==
    InvalidConfiguration(config)
    => /\ call.seed = -1
       /\ trace = <<>>
       /\ ret.kind # "variant"
       /\ ret.kind = "list" => ret.value = <<>>
       /\ batch.results = <<>>

\* C8: within one generate_variant call the generators are invoked once each,
\* in table order, all on the one random source seeded from the student's
\* seed, each starting where the previous one stopped; the parameters have
\* exactly the table's names as keys.
C8_SharedStreamInTableOrder ==
    /\ pc = "loop"
       => /\ Names(trace) = SubSeq(Names(call.table), 1, call.idx - 1)
          /\ Keys(call.parameters) = Names(trace)
          /\ \A k \in 1..Len(trace) :
                /\ trace[k].ok
                /\ trace[k].fn = call.table[k].fn
                /\ trace[k].before = IF k = 1 THEN Random(call.seed)
                                              ELSE trace[k - 1].after
          /\ rng = IF trace = <<>> THEN Random(call.seed) ELSE trace[Len(trace)].after
    /\ (pc = "idle" /\ ret.kind = "variant")
       => /\ Names(trace) = Names(ret.table)
          /\ Keys(ret.value.parameters) = Names(ret.table)

ParamOf(variant, name) ==
    LET i == CHOOSE i \in 1..Len(variant.parameters) : variant.parameters[i][1] = name
    IN variant.parameters[i][2]

\* a reordered table gives another value for the same name
C8_Witness ==
    /\ pc = "idle"
    /\ ret.kind = "variant"
    /\ kept.kind = "variant"
    /\ ret.student_id = kept.student_id
    /\ ret.table = ReorderedLab01
    /\ kept.table = create_lab01_generators
    /\ ParamOf(ret.value, Lit("sample_depth")) # ParamOf(kept.value, Lit("sample_depth"))

\* C9: for every StudentVariant produced by generate_variant, parsing the text
\* of generate_variant_config_file gives back the same student_id,
\* variant_seed, group_id (None as null) and parameters, with the nesting and
\* order of list and mapping values.
C9_JsonRoundTrip ==
    parsed # Unbound => parsed = asdict(ret.value)

\* a variant of a shipped table with a list and a mapping, None as group and
\* a student id with a quote, written and read back
C9_Witness ==
    /\ parsed # Unbound
    /\ ret.table = create_lab04_generators
    /\ ret.value.group_id = NoneV
    /\ "\"" \in Range(ret.value.student_id)
    /\ parsed.t = "dict"

\* the rendered body: what follows the metadata comment and the blank line
Body == SubSeq(readme.result, Len(Metadata(readme.variant)) + 3, Len(readme.result))

ParameterNames(variant) == Range(Keys(variant.parameters))

\* the loop of generate_student_readme from its k-th parameter on
RECURSIVE RenderFrom(_, _, _)
RenderFrom(content, parameters, k) ==
    IF k > Len(parameters) THEN content
    ELSE RenderFrom(str_replace(content, Placeholder(parameters[k][1]),
                                value_str(parameters[k][2])),
                    parameters, k + 1)

\* the places (i, j) of the placeholders of a text: a "{", a name without
\* braces, a "}"
PlaceholdersOf(tpl) ==
    { ij \in (1..Len(tpl)) \X (1..Len(tpl)) :
        /\ ij[1] < ij[2]
        /\ tpl[ij[1]] = "{"
        /\ tpl[ij[2]] = "}"
        /\ \A m \in (ij[1] + 1)..(ij[2] - 1) : tpl[m] \notin {"{", "}"} }

\* `before` with the occurrences of `old`, found by position, exchanged for `new`
RECURSIVE Exchanged(_, _, _, _)
Exchanged(before, old, new, i) ==
    IF i > Len(before) THEN <<>>
    ELSE IF i + Len(old) - 1 <= Len(before) /\ SubSeq(before, i, i + Len(old) - 1) = old
         THEN new \o Exchanged(before, old, new, i + Len(old))
    ELSE <<before[i]>> \o Exchanged(before, old, new, i + 1)

\* C10: generate_student_readme leaves every placeholder whose name is no key
\* of variant.parameters intact in the body (the text before and after it is
\* rendered on its own) and raises nothing; every placeholder {name} of a key
\* is exchanged for the parameter's text form when the loop reaches that
\* parameter: list items joined with ", ", a mapping as compact JSON, a
\* scalar through str.
C10_UnmatchedPlaceholdersKept ==
    /\ readme.pc = "done"
       => /\ \A ij \in PlaceholdersOf(readme.template) :
                SubSeq(readme.template, ij[1] + 1, ij[2] - 1)
                    \notin ParameterNames(readme.variant)
                => Body = RenderFrom(SubSeq(readme.template, 1, ij[1] - 1),
                                     readme.variant.parameters, 1)
                          \o SubSeq(readme.template, ij[1], ij[2])
                          \o RenderFrom(SubSeq(readme.template, ij[2] + 1,
                                               Len(readme.template)),
                                        readme.variant.parameters, 1)
          /\ ParameterNames(readme.variant) = {} => Body = readme.template
    /\ (readme.pc \in {"loop", "done"} /\ readme.idx > 1)
       => LET p == readme.variant.parameters[readme.idx - 1]
              text == CASE p[2] = IntV(300) -> <<"3", "0", "0">>
                        [] p[2] = StrV(<<"{", "b", "}">>) -> <<"{", "b", "}">>
                        [] p[2] = ListV(<<IntV(1), StrV(Lit("x"))>>) ->
                              <<"1", ",", " ", "x">>
                        [] p[2] = DictV(<< <<Lit("min"), IntV(1)>> >>) ->
                              <<"{", "\"", "min", "\"", ":", " ", "1", "}">>
          IN readme.content = Exchanged(readme.before, <<"{">> \o p[1] \o <<"}">>, text, 1)

\* the example of the specification: "{a}{x}" with a = 300 gives "300{x}"
C10_Witness ==
    /\ readme.pc = "done"
    /\ readme.template = <<"{", "a", "}", "{", "x", "}">>
    /\ readme.variant.parameters = << <<Lit("a"), IntV(300)>> >>
    /\ Body = <<"3", "0", "0", "{", "x", "}">>

\* the parameters whose placeholder stands at the head of a text
MatchingAt(text, parameters) ==
    {k \in 1..Len(parameters) : StartsWith(text, Placeholder(parameters[k][1]))}

\* one pass over a text: every placeholder of a key standing in the text
\* itself is exchanged for the text form of that key's value; what is put in
\* is not looked at again
RECURSIVE SubstituteLiteral(_, _)
SubstituteLiteral(text, parameters) ==
    IF text = <<>> THEN <<>>
    ELSE IF MatchingAt(text, parameters) # {}
         THEN LET k == CHOOSE k \in MatchingAt(text, parameters) : TRUE
              IN value_str(parameters[k][2])
                 \o SubstituteLiteral(
                        SubSeq(text, Len(Placeholder(parameters[k][1])) + 1, Len(text)),
                        parameters)
    ELSE <<Head(text)>> \o SubstituteLiteral(Tail(text), parameters)

Reversed(xs) == [i \in 1..Len(xs) |-> xs[Len(xs) + 1 - i]]

\* C11: generate_student_readme substitutes only the placeholders literally
\* present in the template: the body is the template with each of them
\* exchanged once, text put in for one parameter is never replaced by a later
\* parameter's substitution, and the body is the same for the parameters taken
\* in the opposite order.
C11_OnlyLiteralPlaceholders ==
    readme.pc = "done"
    => /\ Body = SubstituteLiteral(readme.template, readme.variant.parameters)
       /\ Body = RenderFrom(readme.template, Reversed(readme.variant.parameters), 1)

HasKey(parameters, key) == \E i \in 1..Len(parameters) : parameters[i][1] = Lit(key)

\* the integer under `key` in the parameters a file was written from
IntRead(file, key) ==
    file.by.parameters[CHOOSE i \in 1..Len(file.by.parameters) :
                          file.by.parameters[i][1] = Lit(key)][2].v

\* C12: a samples.csv written for lab04, lab05 or ca01 from a variant with
\* num_records = n >= 0 holds one header record and then exactly n data
\* records (GEO-001 onwards), and 50 data records when the variant has no
\* num_records; a geochemical_assays.csv written for ca02 holds num_assays
\* data records, or 500 when num_assays is absent.
C12_RowCount ==
    /\ fs.files["samples.csv"] # Absent
       => LET f == fs.files["samples.csv"]
              n == IF HasKey(f.by.parameters, "num_records")
                   THEN IntRead(f, "num_records") ELSE 50
          IN /\ f.by.assignment_type \in {Chars("lab04"), Chars("lab05"), Chars("ca01")}
             /\ n >= 0
             /\ Len(f.lines) = 1 + n
             /\ f.lines[1][1] = "sample_id"
             /\ \A i \in 2..Len(f.lines) :
                   f.lines[i][1] = Flat(<<"GEO-">> \o ZeroPadded(i - 1, 3))
    /\ fs.files["geochemical_assays.csv"] # Absent
       => LET f == fs.files["geochemical_assays.csv"]
              n == IF HasKey(f.by.parameters, "num_assays")
                   THEN IntRead(f, "num_assays") ELSE 500
          IN /\ f.by.assignment_type = Chars("ca02")
             /\ n >= 0
             /\ Len(f.lines) = 1 + n
             /\ f.lines[1][1] = "sample_id"
             /\ \A i \in 2..Len(f.lines) :
                   f.lines[i][1] = Flat(<<"ASY-">> \o ZeroPadded(i - 1, 4))

\* a directory holding a samples.csv of 50 data records written for ca01 from a
\* variant without num_records, next to an assay file of 2 data records
C12_Witness ==
    /\ synth.kind = "returned"
    /\ fs.files["samples.csv"] # Absent
    /\ fs.files["samples.csv"].by.assignment_type = Chars("ca01")
    /\ ~HasKey(fs.files["samples.csv"].by.parameters, "num_records")
    /\ Len(fs.files["samples.csv"].lines) = 51
    /\ fs.files["geochemical_assays.csv"] # Absent
    /\ HasKey(fs.files["geochemical_assays.csv"].by.parameters, "num_assays")
    /\ Len(fs.files["geochemical_assays.csv"].lines) = 3

\* the assignment types generate_sample_data has no file for
Unrecognized ==
    SynthTypes \ {Chars("lab04"), Chars("lab05"), Chars("ca01"), Chars("ca02")}

\* C13: a generate_sample_data call with an assignment type outside lab04,
\* lab05, ca01, ca02 (lab01 and an arbitrary string here) returns without
\* raising and leaves the output directory as it was: no file created,
\* modified or removed, a missing directory not created.
C13_UnrecognizedIsNoOp ==
    [][(\E assignment_type \in Unrecognized : GenerateSampleData(assignment_type))
       => (fs' = fs /\ synth'.kind = "returned")]_vars

\* a call that returned although the directory does not exist: only a call
\* with an unrecognized type does
C13_Witness ==
    /\ synth.kind = "returned"
    /\ ~fs.exists
    /\ ret.kind = "variant"
    /\ HasKey(ret.value.parameters, "num_records")

\* C14: with the lab01 table, strategy grouped and 10 groups, every student id
\* gets parameters with exactly the keys sample_depth, sample_mass,
\* sample_volume, rock_type, grade_value; sample_depth is an integer in
\* [150, 450], grade_value a number in [0.5, 4.5] with at most 2 decimals,
\* rock_type one of the five rock types; the seed is an integer and the group
\* an integer in [0, 10).
C14_Lab01Scenario ==
    (pc = "idle" /\ ret.kind = "variant")
    => LET v == ret.value
           depth == ParamOf(v, Lit("sample_depth"))
           grade == ParamOf(v, Lit("grade_value"))
           rock == ParamOf(v, Lit("rock_type"))
       IN /\ Len(v.parameters) = 5
          /\ Range(Keys(v.parameters))
             = {Lit("sample_depth"), Lit("sample_mass"), Lit("sample_volume"),
                Lit("rock_type"), Lit("grade_value")}
          /\ depth.t = "int" /\ 150 <= depth.v /\ depth.v <= 450
          /\ grade.t = "float" /\ grade.exp <= 2
          /\ 5 * Pow10(grade.exp) <= 10 * grade.num
          /\ 10 * grade.num <= 45 * Pow10(grade.exp)
          /\ rock.t = "str"
          /\ rock.v \in {<<"Granite">>, <<"Basalt">>, <<"Sandstone">>, <<"Schist">>,
                         <<"Gneiss">>}
          /\ v.variant_seed \in Nat
          /\ v.group_id.t = "int" /\ 0 <= v.group_id.v /\ v.group_id.v < 10

\* the scenario of the specification: student alice, all five parameters made
C14_Witness ==
    /\ pc = "idle"
    /\ ret.kind = "variant"
    /\ ret.student_id = <<"a", "l", "i", "c", "e">>
    /\ ret.table = create_lab01_generators
    /\ config.num_groups = 10
    /\ ret.value.group_id.t = "int"
    /\ Len(ret.value.parameters) = 5

\* a run with --output-dir that ended with status 0
CliWroteFiles == cli.pc = "exited" /\ cli.status = 0 /\ cli.args.output_dir

Present(name) == fs.files[name] # Absent

\* C15 (as stated): for every assignment id the command line accepts, a run
\* with --output-dir that ends successfully leaves both the sidecar
\* .variant_config.json and a generated CSV file in the directory, and the
\* sidecar holds the variant JSON that was printed.
C15_SidecarAndCsv ==
    CliWroteFiles
    => /\ Present(".variant_config.json")
       /\ Present("samples.csv") \/ Present("geochemical_assays.csv")
       /\ fs.files[".variant_config.json"].text = cli.stdout[1]

\* C15 (amended): such a run leaves the sidecar, holding the variant JSON that
\* was printed, for every accepted assignment id; it leaves samples.csv for
\* lab04, lab05 and ca01, geochemical_assays.csv for ca02, and no CSV file
\* for lab01, lab02, lab03, lab06 and miniproject.
C15_SidecarAlwaysCsvWhenRecognized ==
    CliWroteFiles
    => /\ Present(".variant_config.json")
       /\ fs.files[".variant_config.json"].text = cli.stdout[1]
       /\ Present("samples.csv") <=> cli.args.assignment \in {"lab04", "lab05", "ca01"}
       /\ Present("geochemical_assays.csv") <=> cli.args.assignment = "ca02"

\* a successful run for lab06 with --output json into a directory that did not
\* exist: the sidecar is there, no CSV file is
C15_Witness ==
    /\ CliWroteFiles
    /\ cli.args.assignment = "lab06"
    /\ cli.args.output = "json"
    /\ Present(".variant_config.json")
    /\ ~Present("samples.csv")
    /\ ~Present("geochemical_assays.csv")
    /\ Len(cli.stdout) = 2

\* the positions of Au_ppm, Cu_pct and Ag_ppm in a record of the assay file
MayBeEmpty == {6, 7, 8}

\* C16: every samples.csv written starts with the header sample_id, rock_type,
\* grade, depth, mass, location and every geochemical_assays.csv with
\* sample_id, hole_id, from_depth, to_depth, lithology, Au_ppm, Cu_pct,
\* Ag_ppm, Fe_pct, S_pct, sample_quality, assay_date; every data record has
\* one field per header column; no field is empty except Au_ppm, Cu_pct and
\* Ag_ppm of the assay file.
C16_HeadersAndFields ==
    /\ Present("samples.csv")
       => LET rows == fs.files["samples.csv"].lines
          IN /\ rows[1] = <<"sample_id", "rock_type", "grade", "depth", "mass", "location">>
             /\ \A i \in 2..Len(rows) :
                   /\ Len(rows[i]) = 6
                   /\ \A k \in 1..6 : rows[i][k] # ""
    /\ Present("geochemical_assays.csv")
       => LET rows == fs.files["geochemical_assays.csv"].lines
          IN /\ rows[1] = <<"sample_id", "hole_id", "from_depth", "to_depth", "lithology",
                            "Au_ppm", "Cu_pct", "Ag_ppm", "Fe_pct", "S_pct",
                            "sample_quality", "assay_date">>
             /\ \A i \in 2..Len(rows) :
                   /\ Len(rows[i]) = 12
                   /\ \A k \in (1..12) \ MayBeEmpty : rows[i][k] # ""

\* the fields of record i of the assay file that are empty
EmptyFields(i) ==
    {k \in 1..12 : fs.files["geochemical_assays.csv"].lines[i][k] = ""}

\* an assay file in which each of Au_ppm, Cu_pct, Ag_ppm is empty in some
\* record where the other two are not, next to a samples.csv with data records
C16_Witness ==
    /\ Present("samples.csv")
    /\ Len(fs.files["samples.csv"].lines) > 40
    /\ Present("geochemical_assays.csv")
    /\ \A k \in MayBeEmpty :
          \E i \in 2..Len(fs.files["geochemical_assays.csv"].lines) : EmptyFields(i) = {k}

\* C17: the random stream of generate_sample_data is built anew from
\* variant.variant_seed: a call that writes a file over one written with the
\* same seed, assignment type and values of the parameters it reads writes
\* the same records, whichever generator table the variant came from and
\* however many draws its generation took, and so does a second call on the
\* same variant.
C17_FreshStream ==
    [][\A name \in {"samples.csv", "geochemical_assays.csv"} :
          (fs.files[name] # Absent /\ fs'.files[name] # Absent
             /\ fs'.files[name].by = fs.files[name].by)
          => fs'.files[name].lines = fs.files[name].lines]_vars

\* both CSV files written, each from a variant whose generation drew nothing
\* and from one whose generation drew from the stream; the last variant is of
\* the drawing table
C17_Witness ==
    /\ synth.kind = "returned"
    /\ ret.kind = "variant"
    /\ ret.table = DrawingConstantTable
    /\ rng # Random(ret.value.variant_seed)
    /\ \A name \in {"samples.csv", "geochemical_assays.csv"} :
          /\ Present(name)
          /\ fs.files[name].tables = {ConstantTable(2), DrawingConstantTable}
          /\ Len(fs.files[name].lines) = 3

\* the files of a directory that differ between two states of it
FilesChanged(before, after) == {name \in FileNames : after.files[name] # before.files[name]}

\* C18: nothing is held across calls.  No step of any operation changes the
\* VariantConfig; a result the caller holds changes only by the caller taking
\* a newer one; an operation on a returned variant (config file, README, sample
\* data) leaves the variant as it was; the table and the student list of a
\* running call stay as passed; and the directory changes only by
\* generate_sample_data writing its one CSV file or by the caller creating it.
C18_NoStateAcrossCalls ==
    [][/\ config' = config
       /\ (kept' # kept) => (kept' = ret /\ ret' = ret)
       /\ (pc = "idle" /\ pc' = "idle" /\ ret.kind = "variant") => ret' = ret
       /\ (pc # "idle" /\ pc' # "idle") => call'.table = call.table
       /\ (batch.active /\ batch'.active)
             => (batch'.table = batch.table /\ batch'.student_ids = batch.student_ids)
       /\ (readme.pc \in {"called", "loop"})
             => (readme'.variant = readme.variant /\ readme'.template = readme.template)
       /\ (fs' # fs)
             => \/ /\ synth'.kind = "returned"
                   /\ fs'.exists = fs.exists /\ fs'.writable = fs.writable
                   /\ Cardinality(FilesChanged(fs, fs')) = 1
                \/ /\ ~fs.exists /\ fs'.exists
                   /\ fs'.writable = fs.writable /\ fs'.files = fs.files]_vars

\* a variant returned and kept, then rendered, then given to
\* generate_sample_data, and after that a batch over the same student with
\* the same table: the kept variant is the one the batch gives again
C18_Witness ==
    /\ pc = "idle"
    /\ kept.kind = "variant"
    /\ ret.kind = "list" /\ Len(ret.value) = 2
    /\ ret.table = kept.table
    /\ ret.value[1] = kept.value /\ ret.value[2] = kept.value
    /\ readme.pc = "done" /\ readme.variant = kept.value
    /\ Present("samples.csv")
    /\ fs.files["samples.csv"].by =
          SynthInputs(kept.value, Chars("lab04"),
                      {Lit("num_records"), Lit("locations"), Lit("depth_range")})
    /\ kept.table \in fs.files["samples.csv"].tables

\* C19: a missing output directory is not an error of a direct
\* generate_sample_data call: for a recognized assignment type and a
\* directory that does not exist but can be created, the call creates the
\* directory, writes its CSV file into it and returns.
C19_MissingDirectoryIsCreated ==
    [][\A assignment_type \in SamplesTypes \cup AssaysTypes :
          (GenerateSampleData(assignment_type) /\ ~fs.exists /\ fs.writable)
          => /\ synth'.kind = "returned"
             /\ fs'.exists
             /\ \E name \in FileNames : fs'.files[name] # Absent]_vars

\* a command line with an --assignment, --strategy or --output outside the choices
BadChoice(args) ==
    \/ args.assignment \notin AssignmentChoices
    \/ args.strategy \notin StrategyChoices
    \/ args.output \notin OutputChoices

\* C20: the command line rejects a value outside the choices before anything
\* is computed (no configuration, no seed, no generator call, nothing printed
\* or written), and an exception of generate_variant, of mkdir, of
\* generate_sample_data or of writing the sidecar ends the run with that
\* exception and a nonzero status: the run goes no further than the
\* statement that raised, and a run that ends with status 0 met no exception.
C20_RejectedOrPropagated ==
    /\ (cli.pc # "start" /\ BadChoice(cli.args))
          => /\ cli.pc = "exited" /\ cli.status = 2 /\ cli.exc = "SystemExit"
             /\ config = NoConfig /\ call = NoCall /\ rng = -1 /\ trace = <<>>
             /\ ret = NoRet /\ synth = NoSynth /\ cli.stdout = <<>>
             /\ \A name \in FileNames : fs.files[name] = Absent
    /\ (ret.kind = "error")
          => /\ cli.pc \in {"generate", "exited"}
             /\ cli.stdout = <<>> /\ synth = NoSynth
             /\ \A name \in FileNames : fs.files[name] = Absent
             /\ cli.pc = "exited" => (cli.status # 0 /\ cli.exc = ret.exc.type)
    /\ (synth.kind = "error")
          => /\ cli.pc \in {"data", "exited"}
             /\ fs.files[".variant_config.json"] = Absent
             /\ Len(cli.stdout) = 1
             /\ cli.pc = "exited" => (cli.status # 0 /\ cli.exc = synth.exc.type)
    /\ (cli.pc = "exited")
          => /\ cli.status = 0 <=> cli.exc = ""
             /\ cli.status = 0 => (ret.kind = "variant" /\ synth.kind # "error")
             /\ (cli.status = 0 /\ cli.args.output_dir)
                   => (fs.exists /\ Present(".variant_config.json")
                       /\ Len(cli.stdout) = 2)

\* a run in which generate_variant raised (ZeroDivisionError of --groups 0),
\* ended by it with status 1
C20_Witness ==
    /\ cli.pc = "exited"
    /\ ~BadChoice(cli.args)
    /\ cli.args.groups = 0
    /\ ret.kind = "error"
    /\ cli.exc = "ZeroDivisionError"
    /\ cli.status = 1

\* the class of a grade under the cutoff
GradeClass(grade, cutoff) ==
    IF grade >= 2 * cutoff THEN "High Grade"
    ELSE IF grade >= cutoff THEN "Medium Grade"
    ELSE "Low Grade"

\* C21: classify_grade(df, cutoff) returns a table with the rows of df, each
\* with a grade_class that is 'High Grade' when grade >= 2*cutoff, 'Medium
\* Grade' when cutoff <= grade < 2*cutoff and 'Low Grade' when grade < cutoff.
C21_ClassifyGrade ==
    pipeline.op = "classify_grade" =>
       LET result == pipeline.result
           df == pipeline.df
       IN /\ result.t = "frame"
          /\ Len(result.rows) = Len(df.rows)
          /\ \A i \in 1..Len(df.rows) :
                df.rows[i].grade.t = "int" =>
                   /\ "grade_class" \in DOMAIN result.rows[i]
                   /\ result.rows[i].grade_class =
                         GradeClass(df.rows[i].grade.v, pipeline.arg.v)

\* C22: identify_high_grade_zones(df, threshold) returns exactly the rows of
\* df whose grade is >= threshold, a grade equal to the threshold included.
C22_HighGradeZones ==
    pipeline.op = "identify_high_grade_zones" =>
       /\ pipeline.result.t = "frame"
       /\ pipeline.result.rows =
             SelectSeq(pipeline.df.rows,
                       LAMBDA row : row.grade.t = "int" /\ row.grade.v >= pipeline.arg.v)

\* C23: clean_data(df) returns a table in which every grade is in [0, 100]
\* and every present from_depth is >= 0.
C23_CleanData ==
    pipeline.op = "clean_data" =>
       /\ pipeline.result.t = "frame"
       /\ \A i \in 1..Len(pipeline.result.rows) :
             LET row == pipeline.result.rows[i]
             IN /\ row.grade.t = "int" /\ row.grade.v >= 0 /\ row.grade.v <= 1000
                /\ row.from_depth.t = "int" => row.from_depth.v >= 0

\* C24: filter_by_drillhole(df, hole_ids) returns only rows whose hole_id is
\* in hole_ids when a list is given, and all the rows of df when hole_ids is
\* None.
C24_FilterByDrillhole ==
    pipeline.op = "filter_by_drillhole" =>
       /\ pipeline.result.t = "frame"
       /\ pipeline.arg = NoneV => Len(pipeline.result.rows) = Len(pipeline.df.rows)
       /\ pipeline.arg # NoneV =>
             \A i \in 1..Len(pipeline.result.rows) :
                \E j \in 1..Len(pipeline.arg.v) :
                   pipeline.result.rows[i].hole_id = pipeline.arg.v[j]

\* C25: run_pipeline(config) on a valid input file returns a dictionary with
\* the keys validation, statistics, high_grade_count and output_files, where
\* validation.total_records > 0, high_grade_count is a non-negative integer
\* and output_files is non-empty with every listed file existing, with
\* drillholes None and with a list of ids.
C25_RunPipeline ==
    pipeline.op = "run_pipeline" =>
       LET results == pipeline.result
           get(key) == dict_get(results.v, key, Unbound)
       IN /\ results.t = "dict"
          /\ \A key \in {"validation", "statistics", "high_grade_count", "output_files"} :
                get(key) # Unbound
          /\ get("validation").t = "dict"
          /\ dict_get(get("validation").v, "total_records", IntV(0)).v > 0
          /\ get("high_grade_count").t = "int" /\ get("high_grade_count").v >= 0
          /\ get("output_files").t = "list" /\ get("output_files").v # <<>>
          /\ \A i \in 1..Len(get("output_files").v) :
                get("output_files").v[i] \in pipeline.written

\* a line of the script's output
InStdout(line) == \E i \in 1..Len(pipeline.stdout) : pipeline.stdout[i] = line

C26_SeedOfJoinedString ==
    (pc = "idle" /\ ret.kind = "variant" /\ kept.kind = "variant"
       /\ Combined(kept.config, kept.student_id) = Combined(config, ret.student_id))
    => ret.value.variant_seed = kept.value.variant_seed

\* two variants of different triples (another assignment id, another salt and
\* another student id, one with ':' in it) with the same joined string and seed
C26_Witness ==
    /\ pc = "idle" /\ ret.kind = "variant" /\ kept.kind = "variant"
    /\ kept.config.assignment_id = <<"a", ":", "b">> /\ kept.config.seed_salt = <<"c">>
    /\ kept.student_id = <<"l">>
    /\ config.assignment_id = <<"a">> /\ config.seed_salt = <<"b">>
    /\ ret.student_id = <<"c", ":", "l">>
    /\ Combined(kept.config, kept.student_id) = Combined(config, ret.student_id)
    /\ ret.value.variant_seed = kept.value.variant_seed

\* the variants are of the same assignment id, salt, student and table
SameTriple ==
    /\ pc = "idle" /\ ret.kind = "variant" /\ kept.kind = "variant"
    /\ kept.config.assignment_id = config.assignment_id
    /\ kept.config.seed_salt = config.seed_salt
    /\ kept.student_id = ret.student_id
    /\ kept.table = ret.table

\* C27: variant_strategy and num_groups influence only group_id: variants
\* of the same assignment id, salt, student and shipped table have the same
\* seed and the same parameters under unique, grouped and hybrid and under
\* any num_groups >= 1; group_id is None exactly under unique; and under
\* grouped and hybrid with the same num_groups the variants are equal.
C27_StrategyOnlySetsGroup ==
    /\ SameTriple =>
          /\ ret.value.variant_seed = kept.value.variant_seed
          /\ ret.value.parameters = kept.value.parameters
          /\ (config.variant_strategy # "unique" /\ kept.config.variant_strategy # "unique"
                /\ config.num_groups = kept.config.num_groups)
             => ret.value = kept.value
    /\ (pc = "idle" /\ ret.kind = "variant") =>
          (ret.value.group_id = NoneV <=> config.variant_strategy = "unique")

\* a unique variant kept, and the same student's variant of lab06 under
\* grouped with two groups: another group_id, the same seed and parameters
C27_Witness ==
    /\ SameTriple
    /\ ret.table = create_lab06_generators
    /\ kept.config.variant_strategy = "unique" /\ kept.value.group_id = NoneV
    /\ config.variant_strategy = "grouped" /\ config.num_groups = 2
    /\ ret.value.group_id # NoneV
    /\ Len(ret.value.parameters) = 4
    /\ ret.value.parameters = kept.value.parameters

\* int(field) of a CSV field that holds a decimal numeral below 1000
Numerals ==
    [field \in {Flat(int_repr(d)) : d \in 0..999} |->
        CHOOSE d \in 0..999 : Flat(int_repr(d)) = field]

IsNumeral(field) == field \in DOMAIN Numerals

\* the value read under `key` by the call that wrote the file, or the default
ValueRead(file, key, default) == dict_get(file.by.parameters, Lit(key), default)

\* C28: in every samples.csv the sample_id of the i-th data record is GEO-
\* and i padded to three digits (so the ids are unique and consecutive from
\* 1), every depth lies in [depth_range.min, depth_range.max] and every
\* location is one of the locations of the variant (or of the defaults 50,
\* 500 and Site-A, Site-B); in every geochemical_assays.csv from_depth is in
\* [10, 450] and to_depth - from_depth in [1, 4].
C28_RowValues ==
    /\ Present("samples.csv")
       => LET f == fs.files["samples.csv"]
              locations == ValueRead(f, "locations", DefaultLocations)
              depth_range == ValueRead(f, "depth_range", DefaultDepthRange)
              lo == dict_get(depth_range.v, Lit("min"), NoneV).v
              hi == dict_get(depth_range.v, Lit("max"), NoneV).v
          IN \A i \in 2..Len(f.lines) :
                /\ f.lines[i][1] = Flat(<<"GEO-">> \o ZeroPadded(i - 1, 3))
                /\ \A j \in 2..Len(f.lines) : f.lines[j][1] = f.lines[i][1] => j = i
                /\ IsNumeral(f.lines[i][4])
                /\ Numerals[f.lines[i][4]] >= lo /\ Numerals[f.lines[i][4]] <= hi
                /\ \E k \in 1..Len(locations.v) :
                      f.lines[i][6] = Flat(csv_field(locations.v[k]))
    /\ Present("geochemical_assays.csv")
       => LET rows == fs.files["geochemical_assays.csv"].lines
          IN \A i \in 2..Len(rows) :
                /\ IsNumeral(rows[i][3]) /\ IsNumeral(rows[i][4])
                /\ Numerals[rows[i][3]] >= 10 /\ Numerals[rows[i][3]] <= 450
                /\ Numerals[rows[i][4]] - Numerals[rows[i][3]] \in 1..4

\* a samples.csv of 40 or more records written from a variant of
\* create_lab04_generators (its own locations and depth_range), next to an
\* assay file of 500 records
C28_Witness ==
    /\ Present("samples.csv")
    /\ HasKey(fs.files["samples.csv"].by.parameters, "locations")
    /\ HasKey(fs.files["samples.csv"].by.parameters, "depth_range")
    /\ Len(fs.files["samples.csv"].lines) > 40
    /\ \E i \in 2..Len(fs.files["samples.csv"].lines) :
          fs.files["samples.csv"].lines[i][6] \notin {"Site-A", "Site-B"}
    /\ Present("geochemical_assays.csv")
    /\ Len(fs.files["geochemical_assays.csv"].lines) = 501

\* the assignments generate_sample_data writes a CSV file for
CsvDue == cli.args.assignment \in {"lab04", "lab05", "ca01", "ca02"}

CsvPresent == Present("samples.csv") \/ Present("geochemical_assays.csv")

\* the steps of a run with --output-dir, as seen in its effects; `csv` says
\* whether a CSV file has to be in the directory once generate_sample_data
\* has returned
EffectsInOrder(csv) ==
    \* first the variant is printed: nothing is created or written before
    /\ (cli.stdout = <<>>)
          => /\ fs' = fs /\ synth' = NoSynth
             /\ (cli'.stdout # <<>>) => /\ Len(cli'.stdout) = 1
                                        /\ ret.kind = "variant"
    \* then the directory is created
    /\ (fs'.exists # fs.exists)
          => /\ Len(cli.stdout) = 1 /\ synth = NoSynth
             /\ \A name \in FileNames : fs.files[name] = Absent
    \* then the CSV file is written
    /\ (synth = NoSynth /\ synth' # NoSynth)
          => /\ Len(cli.stdout) = 1 /\ cli'.stdout = cli.stdout
             /\ fs.exists
             /\ \A name \in FileNames : fs.files[name] = Absent
             /\ ~Present(".variant_config.json")'
             /\ synth'.kind = "returned" => (csv => CsvPresent')
             /\ synth'.kind = "error" => fs' = fs
    \* a failed CSV write ends the run: no sidecar, no confirmation
    /\ (synth.kind = "error")
          => /\ Len(cli.stdout) = 1
             /\ fs' = fs /\ cli'.stdout = cli.stdout
             /\ ~Present(".variant_config.json")
             /\ cli'.pc = "exited" /\ cli'.status # 0
    \* then the sidecar is written
    /\ (~Present(".variant_config.json") /\ Present(".variant_config.json")')
          => /\ synth.kind = "returned"
             /\ Len(cli.stdout) = 1 /\ cli'.stdout = cli.stdout
             /\ csv => CsvPresent
    \* then the confirmation line is printed
    /\ (Len(cli'.stdout) = 2)
          => /\ Len(cli.stdout) \in {1, 2}
             /\ fs' = fs
             /\ Present(".variant_config.json")
             /\ synth.kind = "returned"
             /\ csv => CsvPresent
             /\ cli'.pc = "exited" /\ cli'.status = 0

\* C29 (as stated): a run with --output-dir prints the variant JSON, then
\* creates the directory, then writes the CSV, then writes
\* .variant_config.json, then prints the confirmation line; after a failed
\* CSV write the variant has been printed, no sidecar is written and no
\* confirmation is printed; the confirmation is printed only after both the
\* CSV and the sidecar were written.
C29_ConfirmationAfterBothWrites == [][EffectsInOrder(TRUE)]_vars

\* C29 (amended): the same order, with a CSV file written only for lab04,
\* lab05, ca01 and ca02: for the other assignments generate_sample_data
\* returns without writing and the confirmation follows the sidecar alone.
C29_ConfirmationAfterDueWrites ==
    [][/\ EffectsInOrder(CsvDue)
       /\ (CsvPresent' /\ ~CsvPresent) => CsvDue]_vars

\* a run for lab04 with --output config that printed the confirmation after
\* the variant: samples.csv and the sidecar are in the directory
C29_Witness ==
    /\ cli.pc = "exited" /\ cli.status = 0
    /\ cli.args.assignment = "lab04"
    /\ cli.args.output = "config"
    /\ Len(cli.stdout) = 2
    /\ cli.stdout[2] = <<"Data files generated in: ", "out">>
    /\ fs.exists
    /\ Present("samples.csv")
    /\ Present(".variant_config.json")
    /\ synth.kind = "returned"

====
